---- MODULE Spec2Model ----
(***************************************************************************)
(* Hatch-line generation of BuildStep (src/models.py).                     *)
(*                                                                         *)
(* Numbers.  Python floats are modelled as normalised rationals <<n, d>>   *)
(* with d > 0; +, -, *, / and the comparisons are exact.  math.sqrt is     *)
(* exact on rational squares and otherwise rounds down to a multiple of    *)
(* 2^-SqrtBits, so a value that went through an inexact root carries a     *)
(* rounding error, as it does in the program.  A division by zero is the   *)
(* value DivZero (denominator 0), which every later operation propagates;  *)
(* it stands for the ZeroDivisionError the program raises.                 *)
(*                                                                         *)
(* Angles.  hatch_angle is a pair <<q, t>> standing for q*90 + t*Theta     *)
(* degrees, Theta = atan(4/3) (about 53.13 degrees), the angles whose sine *)
(* and cosine are rational: cos Theta = 3/5, sin Theta = 4/5.              *)
(***************************************************************************)
EXTENDS Integers, Sequences, FiniteSets, TLC

----------------------------------------------------------------------------
(* Rational arithmetic *)

Abs(i) == IF i < 0 THEN -i ELSE i

RECURSIVE Gcd(_, _)
Gcd(a, b) == IF b = 0 THEN a ELSE Gcd(b, a % b)

Lcm(a, b) == (a \div Gcd(a, b)) * b

DivZero == <<0, 0>>

IsNum(p) == p[2] # 0

\* the rational n/d in lowest terms with a positive denominator
Rat(n, d) ==
  IF d = 0 THEN DivZero
  ELSE LET g == Gcd(Abs(n), Abs(d))
           s == IF d < 0 THEN -1 ELSE 1
       IN  <<s * (n \div g), Abs(d) \div g>>

I(n) == <<n, 1>>

Zero == I(0)

RAdd(p, q) ==
  IF p[2] = 0 \/ q[2] = 0 THEN DivZero
  ELSE LET l == Lcm(p[2], q[2])
       IN  Rat(p[1] * (l \div p[2]) + q[1] * (l \div q[2]), l)

RNeg(p) == <<-p[1], p[2]>>

RSub(p, q) == RAdd(p, RNeg(q))

RMul(p, q) ==
  IF p[2] = 0 \/ q[2] = 0 THEN DivZero
  ELSE LET g1 == Gcd(Abs(p[1]), q[2])
           g2 == Gcd(Abs(q[1]), p[2])
       IN  IF g1 = 0 \/ g2 = 0 THEN Zero
           ELSE Rat((p[1] \div g1) * (q[1] \div g2),
                    (p[2] \div g2) * (q[2] \div g1))

RDiv(p, q) ==
  IF p[2] = 0 \/ q[2] = 0 \/ q[1] = 0 THEN DivZero
  ELSE RMul(p, IF q[1] < 0 THEN <<-q[2], -q[1]>> ELSE <<q[2], q[1]>>)

RSq(p) == RMul(p, p)

\* sign of p - q
RCmp(p, q) ==
  LET l == Lcm(p[2], q[2])
      a == p[1] * (l \div p[2])
      b == q[1] * (l \div q[2])
  IN  IF a < b THEN -1 ELSE IF a > b THEN 1 ELSE 0

RLt(p, q) == RCmp(p, q) < 0
RLe(p, q) == RCmp(p, q) <= 0
RGt(p, q) == RCmp(p, q) > 0
RGe(p, q) == RCmp(p, q) >= 0

RAbs(p) == <<Abs(p[1]), p[2]>>

\* Python int(): truncation towards zero
RInt(p) == IF p[1] >= 0 THEN p[1] \div p[2] ELSE -((-p[1]) \div p[2])

\* floor of the square root of a natural number
RECURSIVE ISqrt(_)
ISqrt(n) ==
  IF n < 4 THEN (IF n = 0 THEN 0 ELSE 1)
  ELSE LET h == 2 * ISqrt(n \div 4)
       IN  IF (h + 1) * (h + 1) <= n THEN h + 1 ELSE h

SqrtBits == 4

RECURSIVE Pow2(_)
Pow2(k) == IF k = 0 THEN 1 ELSE 2 * Pow2(k - 1)

SqrtPrec == Pow2(SqrtBits)

\* math.sqrt on a non-negative number
RSqrt(p) ==
  IF p[2] = 0 THEN DivZero
  ELSE LET rn == ISqrt(p[1])
           rd == ISqrt(p[2])
       IN  IF rn * rn = p[1] /\ rd * rd = p[2] THEN Rat(rn, rd)
           ELSE Rat(ISqrt((p[1] * SqrtPrec * SqrtPrec) \div p[2]), SqrtPrec)

----------------------------------------------------------------------------
(* math.cos(math.radians(a)) and math.sin(math.radians(a)) *)

Deg(q) == <<q, 0>>

\* angle_deg + 90.0 * k
AddQuarter(a, k) == <<a[1] + k, a[2]>>

\* (cos, sin) turned by a quarter turn, n times
RECURSIVE Turn(_, _)
Turn(cs, n) == IF n = 0 THEN cs ELSE Turn(<<RNeg(cs[2]), cs[1]>>, n - 1)

CosSin(a) ==
  LET base == IF a[2] = 0 THEN <<I(1), Zero>>
              ELSE <<Rat(3, 5), Rat(4 * a[2], 5)>>
  IN  Turn(base, a[1] % 4)

Cos(a) == CosSin(a)[1]
Sin(a) == CosSin(a)[2]

\* Rounding. A float keeps FloatBits significant bits; the result of an
\* arithmetic operation is the float nearest to the exact result, ties going
\* to the even significand. The clipper followed pass by pass (ClipSpec)
\* computes with these; the line-family generators compute exactly.
FloatBits == 6

\* the significand of n/d, for Pow2(FloatBits - 1) <= n/d < Pow2(FloatBits)
RoundSignificand(n, d) ==
  IF 2 * (n % d) > d \/ (2 * (n % d) = d /\ (n \div d) % 2 = 1)
    THEN (n \div d) + 1
  ELSE n \div d

\* m * 2^e
Scaled(m, e) == IF e >= 0 THEN Rat(m * Pow2(e), 1) ELSE Rat(m, Pow2(-e))

\* the float nearest to (n/d) * 2^e, for n, d > 0
RECURSIVE RoundPos(_, _, _)
RoundPos(n, d, e) ==
  IF n >= Pow2(FloatBits) * d THEN RoundPos(n, 2 * d, e + 1)
  ELSE IF n < Pow2(FloatBits - 1) * d THEN RoundPos(2 * n, d, e - 1)
  ELSE Scaled(RoundSignificand(n, d), e)

Round(p) ==
  IF ~IsNum(p) \/ p[1] = 0 THEN p
  ELSE IF p[1] > 0 THEN RoundPos(p[1], p[2], 0)
  ELSE RNeg(RoundPos(-p[1], p[2], 0))

\* The range of the floats: a result of magnitude 2^MaxExponent or more is
\* out of range (x**2 raises OverflowError, x / y gives inf and int(inf)
\* raises OverflowError)
MaxExponent == 10

FloatOverflow(p) == IsNum(p) /\ RGe(RAbs(p), I(Pow2(MaxExponent)))

FAdd(p, q) == Round(RAdd(p, q))
FSub(p, q) == Round(RSub(p, q))
FMul(p, q) == Round(RMul(p, q))
FDiv(p, q) == Round(RDiv(p, q))

----------------------------------------------------------------------------
(* BuildStep._clip_line_to_rectangle *)

INSIDE == 0
LEFT == 1
RIGHT == 2
BOTTOM == 4
TOP == 8

HasBit(code, b) == (code \div b) % 2 = 1

\* bitwise AND of two outcodes is non-zero
ShareBit(c1, c2) == \E b \in {LEFT, RIGHT, BOTTOM, TOP} : HasBit(c1, b) /\ HasBit(c2, b)

\* variant: a point above the box is not marked TOP
compute_outcode_NoTop(x, y, x_min, x_max, y_min, y_max) ==
  (IF RLt(x, x_min) THEN LEFT ELSE IF RGt(x, x_max) THEN RIGHT ELSE INSIDE)
  + (IF RLt(y, y_min) THEN BOTTOM ELSE INSIDE)

compute_outcode(x, y, x_min, x_max, y_min, y_max) ==
  (IF RLt(x, x_min) THEN LEFT ELSE IF RGt(x, x_max) THEN RIGHT ELSE INSIDE)
  + (IF RLt(y, y_min) THEN BOTTOM ELSE IF RGt(y, y_max) THEN TOP ELSE INSIDE)

ClipFuel == 8

\* the intersection point computed for the endpoint with outcode oc
ClipPoint(x1, y1, x2, y2, oc, x_min, x_max, y_min, y_max) ==
  IF HasBit(oc, TOP)
    THEN <<RAdd(x1, RDiv(RMul(RSub(x2, x1), RSub(y_max, y1)), RSub(y2, y1))), y_max>>
  ELSE IF HasBit(oc, BOTTOM)
    THEN <<RAdd(x1, RDiv(RMul(RSub(x2, x1), RSub(y_min, y1)), RSub(y2, y1))), y_min>>
  ELSE IF HasBit(oc, RIGHT)
    THEN <<x_max, RAdd(y1, RDiv(RMul(RSub(y2, y1), RSub(x_max, x1)), RSub(x2, x1)))>>
  ELSE <<x_min, RAdd(y1, RDiv(RMul(RSub(y2, y1), RSub(x_min, x1)), RSub(x2, x1)))>>

\* the result of the clipper: kind is "seg" (a segment is returned), "none"
\* (None is returned), "raise" (ZeroDivisionError) or "loop" (ClipFuel
\* iterations did not end the loop); iters counts the endpoint replacements
ClipResult(kind, x1, y1, x2, y2, n) ==
  [kind |-> kind, p1 |-> <<x1, y1>>, p2 |-> <<x2, y2>>, iters |-> n]

\* the while loop, entered with the outcodes oc1, oc2 of the two endpoints
RECURSIVE ClipLoop(_, _, _, _, _, _, _, _, _, _, _)
\* "Update point and outcode": pt replaces the endpoint whose outcode was chosen
ClipUpdate(x1, y1, x2, y2, oc1, oc2, x_min, x_max, y_min, y_max, n, outcode, pt) ==
  IF ~IsNum(pt[1]) \/ ~IsNum(pt[2])
    THEN ClipResult("raise", x1, y1, x2, y2, n)
  ELSE IF outcode = oc1
    THEN ClipLoop(pt[1], pt[2], x2, y2,
                  compute_outcode(pt[1], pt[2], x_min, x_max, y_min, y_max), oc2,
                  x_min, x_max, y_min, y_max, n + 1)
  ELSE ClipLoop(x1, y1, pt[1], pt[2],
                oc1, compute_outcode(pt[1], pt[2], x_min, x_max, y_min, y_max),
                x_min, x_max, y_min, y_max, n + 1)

\* "outcode = outcode1 if outcode1 != 0 else outcode2" and the clip against
\* the boundary it names
ClipStep(x1, y1, x2, y2, oc1, oc2, x_min, x_max, y_min, y_max, n, outcode) ==
  ClipUpdate(x1, y1, x2, y2, oc1, oc2, x_min, x_max, y_min, y_max, n, outcode,
             ClipPoint(x1, y1, x2, y2, outcode, x_min, x_max, y_min, y_max))

ClipLoop(x1, y1, x2, y2, oc1, oc2, x_min, x_max, y_min, y_max, n) ==
  IF oc1 = 0 /\ oc2 = 0 THEN ClipResult("seg", x1, y1, x2, y2, n)
  ELSE IF ShareBit(oc1, oc2) THEN ClipResult("none", x1, y1, x2, y2, n)
  ELSE IF n >= ClipFuel THEN ClipResult("loop", x1, y1, x2, y2, n)
  ELSE ClipStep(x1, y1, x2, y2, oc1, oc2, x_min, x_max, y_min, y_max, n,
                IF oc1 # 0 THEN oc1 ELSE oc2)

\* the loop on the box [x_min, x_max] x [y_min, y_max]
ClipToBox(p1, p2, x_min, x_max, y_min, y_max) ==
  ClipLoop(p1[1], p1[2], p2[1], p2[2],
           compute_outcode(p1[1], p1[2], x_min, x_max, y_min, y_max),
           compute_outcode(p2[1], p2[2], x_min, x_max, y_min, y_max),
           x_min, x_max, y_min, y_max, 0)

clip_line_to_rectangle(p1, p2, width, height) ==
  ClipToBox(p1, p2, RNeg(RDiv(width, I(2))), RDiv(width, I(2)),
            RNeg(RDiv(height, I(2))), RDiv(height, I(2)))

----------------------------------------------------------------------------
(* BuildStep: the object and its line-family generators *)

\* value of the attribute _actual_hatch_spacing while it does not exist
NoAttr == <<0, -1>>

\* variant: a missing dimension counts as 1
DimGet_DefaultOne(dimensions, key) == IF key \in DOMAIN dimensions THEN dimensions[key] ELSE I(1)

\* dict.get(key, 0)
DimGet(dimensions, key) == IF key \in DOMAIN dimensions THEN dimensions[key] ELSE Zero

\* variant: the stored hatch_spacing field is the spacing
SpacingOf_Field(self) == self.hatch_spacing

\* getattr(self, '_actual_hatch_spacing', self.hatch_spacing)
SpacingOf(self) ==
  IF self.actual_hatch_spacing = NoAttr THEN self.hatch_spacing
  ELSE self.actual_hatch_spacing

\* variant: x_offset is added to both coordinates
Placed_XOnly(self, p1, p2) ==
  << <<RAdd(p1[1], self.x_offset), RAdd(p1[2], self.x_offset)>>,
     <<RAdd(p2[1], self.x_offset), RAdd(p2[2], self.x_offset)>> >>

\* the segment (p1, p2) moved to absolute coordinates
Placed(self, p1, p2) ==
  << <<RAdd(p1[1], self.x_offset), RAdd(p1[2], self.y_offset)>>,
     <<RAdd(p2[1], self.x_offset), RAdd(p2[2], self.y_offset)>> >>

\* lines.append(...): the candidates that gave a segment, in absolute
\* coordinates; a candidate is a record [kind, p1, p2]
Collect(self, segs) ==
  [i \in 1..Len(segs) |-> Placed(self, segs[i].p1, segs[i].p2)]

\* "if clipped:" / no "continue"
IsSegment(candidate) == candidate.kind = "seg"

Skip == [kind |-> "skip", p1 |-> <<Zero, Zero>>, p2 |-> <<Zero, Zero>>]

Raise == [kind |-> "raise", p1 |-> <<Zero, Zero>>, p2 |-> <<Zero, Zero>>]

\* the result of a family generator from its candidates
Family(self, row) ==
  IF \E i \in 1..Len(row) : row[i].kind \in {"raise", "loop"}
    THEN [raised |-> TRUE, lines |-> <<>>]
  ELSE [raised |-> FALSE, lines |-> Collect(self, SelectSeq(row, IsSegment))]

NoLines == [raised |-> FALSE, lines |-> <<>>]

\* the generator raised OverflowError
OverflowError == [raised |-> TRUE, lines |-> <<>>]

\* "math.sqrt(width**2 + height**2)" or "int(diagonal / spacing)" raises
DiagonalOverflow(width, height, spacing) ==
  \/ FloatOverflow(RSq(width))
  \/ FloatOverflow(RSq(height))
  \/ FloatOverflow(RAdd(RSq(width), RSq(height)))
  \/ FloatOverflow(RDiv(RSqrt(RAdd(RSq(width), RSq(height))), spacing))

\* variant: every other offset
LineOffset_Doubled(start_offset, i, spacing) == RAdd(start_offset, RMul(I(2 * i), spacing))

\* perpendicular offset of candidate line i: "offset = start_offset + i * spacing"
LineOffset(start_offset, i, spacing) == RAdd(start_offset, RMul(I(i), spacing))

\* "diagonal = math.sqrt(width**2 + height**2)"
Diagonal(width, height) == RSqrt(RAdd(RSq(width), RSq(height)))

(* _generate_rectangle_hatches *)

\* variant: one line beyond the quotient, not two
rectangle_num_lines_PlusOne(diagonal, spacing) == RInt(RDiv(diagonal, spacing)) + 1

rectangle_num_lines(diagonal, spacing) == RInt(RDiv(diagonal, spacing)) + 2

\* variant: the sweep starts a whole diagonal before the centre
rectangle_start_offset_Whole(diagonal) == RNeg(diagonal)

rectangle_start_offset(diagonal) == RDiv(RNeg(diagonal), I(2))

\* variant: the line is extended by a quarter of t_max only
rectangle_line_Quarter(width, height, cos_a, sin_a, t_max, px, py) ==
  clip_line_to_rectangle(
    <<RSub(px, RMul(RDiv(t_max, I(4)), cos_a)), RSub(py, RMul(RDiv(t_max, I(4)), sin_a))>>,
    <<RAdd(px, RMul(RDiv(t_max, I(4)), cos_a)), RAdd(py, RMul(RDiv(t_max, I(4)), sin_a))>>,
    width, height)

\* the line through (px, py) extended by t_max both ways, clipped
rectangle_line(width, height, cos_a, sin_a, t_max, px, py) ==
  clip_line_to_rectangle(
    <<RSub(px, RMul(t_max, cos_a)), RSub(py, RMul(t_max, sin_a))>>,
    <<RAdd(px, RMul(t_max, cos_a)), RAdd(py, RMul(t_max, sin_a))>>,
    width, height)

\* variant: the line is extended by 1 mm each way, not by the diagonal
rectangle_candidate_Unit(width, height, cos_a, sin_a, diagonal, offset) ==
  rectangle_line(width, height, cos_a, sin_a, I(1),
                 RMul(RNeg(offset), sin_a), RMul(offset, cos_a))

rectangle_candidate(width, height, cos_a, sin_a, diagonal, offset) ==
  rectangle_line(width, height, cos_a, sin_a, diagonal,
                 RMul(RNeg(offset), sin_a), RMul(offset, cos_a))

rectangle_family(self, width, height, cos_a, sin_a, spacing, diagonal) ==
  Family(self, [i \in 1..rectangle_num_lines(diagonal, spacing) |->
                  rectangle_candidate(width, height, cos_a, sin_a, diagonal,
                    LineOffset(rectangle_start_offset(diagonal), i - 1, spacing))])

generate_rectangle_hatches(self, width, height, angle_deg) ==
  IF RLe(width, Zero) \/ RLe(height, Zero) \/ RLe(SpacingOf(self), Zero) THEN NoLines
  ELSE IF DiagonalOverflow(width, height, SpacingOf(self)) THEN OverflowError
  ELSE rectangle_family(self, width, height, Cos(angle_deg), Sin(angle_deg),
                        SpacingOf(self), Diagonal(width, height))

(* _generate_circle_hatches *)

circle_num_lines(diameter, spacing) == RInt(RDiv(diameter, spacing)) + 2

circle_start_offset(radius, spacing) == RSub(RNeg(radius), spacing)

\* variant: the offset is not squared
chord_half_length_Linear(radius, offset) == RSqrt(RSub(RSq(radius), RAbs(offset)))

\* "chord_half_length = math.sqrt(radius**2 - offset**2)"
chord_half_length(radius, offset) == RSqrt(RSub(RSq(radius), RSq(offset)))

\* the chord of half length half around its centre point (px, py)
circle_chord(cos_a, sin_a, px, py, half) ==
  [kind |-> "seg",
   p1 |-> <<RSub(px, RMul(half, cos_a)), RSub(py, RMul(half, sin_a))>>,
   p2 |-> <<RAdd(px, RMul(half, cos_a)), RAdd(py, RMul(half, sin_a))>>]

\* variant: a tangent candidate is not skipped
circle_candidate_Tangent(radius, cos_a, sin_a, offset) ==
  IF RGt(RAbs(offset), radius) THEN Skip
  ELSE circle_chord(cos_a, sin_a, RMul(RNeg(offset), sin_a), RMul(offset, cos_a),
                    chord_half_length(radius, offset))

circle_candidate(radius, cos_a, sin_a, offset) ==
  IF RGe(RAbs(offset), radius) THEN Skip
  ELSE circle_chord(cos_a, sin_a, RMul(RNeg(offset), sin_a), RMul(offset, cos_a),
                    chord_half_length(radius, offset))

circle_family(self, diameter, radius, cos_a, sin_a, spacing) ==
  Family(self, [i \in 1..circle_num_lines(diameter, spacing) |->
                  circle_candidate(radius, cos_a, sin_a,
                    LineOffset(circle_start_offset(radius, spacing), i - 1, spacing))])

generate_circle_hatches(self, diameter, angle_deg) ==
  IF RLe(diameter, Zero) \/ RLe(SpacingOf(self), Zero) THEN NoLines
  ELSE IF FloatOverflow(RDiv(diameter, SpacingOf(self))) THEN OverflowError
  ELSE circle_family(self, diameter, RDiv(diameter, I(2)), Cos(angle_deg), Sin(angle_deg),
                     SpacingOf(self))

(* _generate_ellipse_hatches *)

\* variant: B without its factor 2
ellipse_quadratic_HalfB(a, b, cos_a, sin_a, px, py) ==
  [A |-> RAdd(RSq(RDiv(cos_a, a)), RSq(RDiv(sin_a, b))),
   B |-> RAdd(RDiv(RMul(px, cos_a), RSq(a)), RDiv(RMul(py, sin_a), RSq(b))),
   C |-> RSub(RAdd(RSq(RDiv(px, a)), RSq(RDiv(py, b))), I(1))]

\* the quadratic A t^2 + B t + C = 0 of the scan line through (px, py)
ellipse_quadratic(a, b, cos_a, sin_a, px, py) ==
  [A |-> RAdd(RSq(RDiv(cos_a, a)), RSq(RDiv(sin_a, b))),
   B |-> RMul(I(2), RAdd(RDiv(RMul(px, cos_a), RSq(a)), RDiv(RMul(py, sin_a), RSq(b)))),
   C |-> RSub(RAdd(RSq(RDiv(px, a)), RSq(RDiv(py, b))), I(1))]

\* "discriminant = B**2 - 4*A*C"
ellipse_discriminant(q) == RSub(RSq(q.B), RMul(I(4), RMul(q.A, q.C)))

\* "Calculate intersection points"
ellipse_points(cos_a, sin_a, px, py, t1, t2) ==
  IF ~IsNum(t1) \/ ~IsNum(t2) THEN Raise
  ELSE [kind |-> "seg",
        p1 |-> <<RAdd(px, RMul(t1, cos_a)), RAdd(py, RMul(t1, sin_a))>>,
        p2 |-> <<RAdd(px, RMul(t2, cos_a)), RAdd(py, RMul(t2, sin_a))>>]

\* variant: the larger root first
ellipse_roots_Swapped(cos_a, sin_a, px, py, q, sqrt_disc) ==
  ellipse_points(cos_a, sin_a, px, py,
                 RDiv(RAdd(RNeg(q.B), sqrt_disc), RMul(I(2), q.A)),
                 RDiv(RSub(RNeg(q.B), sqrt_disc), RMul(I(2), q.A)))

\* the two roots t1, t2 and their points
ellipse_roots(cos_a, sin_a, px, py, q, sqrt_disc) ==
  ellipse_points(cos_a, sin_a, px, py,
                 RDiv(RSub(RNeg(q.B), sqrt_disc), RMul(I(2), q.A)),
                 RDiv(RAdd(RNeg(q.B), sqrt_disc), RMul(I(2), q.A)))

\* "if discriminant < 0: continue"
ellipse_solve(cos_a, sin_a, px, py, q, discriminant) ==
  IF RLt(discriminant, Zero) THEN Skip
  ELSE ellipse_roots(cos_a, sin_a, px, py, q, RSqrt(discriminant))

ellipse_line(cos_a, sin_a, px, py, q) ==
  ellipse_solve(cos_a, sin_a, px, py, q, ellipse_discriminant(q))

ellipse_at(a, b, cos_a, sin_a, px, py) ==
  ellipse_line(cos_a, sin_a, px, py, ellipse_quadratic(a, b, cos_a, sin_a, px, py))

ellipse_candidate(a, b, cos_a, sin_a, offset) ==
  ellipse_at(a, b, cos_a, sin_a, RMul(RNeg(offset), sin_a), RMul(offset, cos_a))

ellipse_family(self, a, b, cos_a, sin_a, spacing, diagonal) ==
  Family(self, [i \in 1..rectangle_num_lines(diagonal, spacing) |->
                  ellipse_candidate(a, b, cos_a, sin_a,
                    LineOffset(rectangle_start_offset(diagonal), i - 1, spacing))])

generate_ellipse_hatches(self, width, height, angle_deg) ==
  IF RLe(width, Zero) \/ RLe(height, Zero) \/ RLe(SpacingOf(self), Zero) THEN NoLines
  ELSE IF DiagonalOverflow(width, height, SpacingOf(self)) THEN OverflowError
  ELSE ellipse_family(self, RDiv(width, I(2)), RDiv(height, I(2)),
                      Cos(angle_deg), Sin(angle_deg),
                      SpacingOf(self), Diagonal(width, height))

\* variant: the square reads the rectangle's key
square_size_Width(self) == DimGet(self.dimensions, "width")

\* "size = self.dimensions.get('size', 0)"
square_size(self) == DimGet(self.dimensions, "size")

\* variant: every shape is hatched as a square of its 'size'
generate_hatch_lines_at_angle_AsSquare(self, angle_deg) ==
  generate_rectangle_hatches(self, DimGet(self.dimensions, "size"),
                             DimGet(self.dimensions, "size"), angle_deg)

generate_hatch_lines_at_angle(self, angle_deg) ==
  IF self.shape_type = "square"
    THEN generate_rectangle_hatches(self, square_size(self), square_size(self), angle_deg)
  ELSE IF self.shape_type = "rectangle"
    THEN generate_rectangle_hatches(self, DimGet(self.dimensions, "width"),
                                    DimGet(self.dimensions, "length"), angle_deg)
  ELSE IF self.shape_type = "circle"
    THEN generate_circle_hatches(self, DimGet(self.dimensions, "diameter"), angle_deg)
  ELSE IF self.shape_type = "ellipse"
    THEN generate_ellipse_hatches(self, DimGet(self.dimensions, "width"),
                                  DimGet(self.dimensions, "length"), angle_deg)
  ELSE NoLines

\* variant: microns taken for tenths of a millimetre
calculate_hatch_spacing_Scale(self, spot_size_microns) ==
  RMul(RDiv(spot_size_microns, I(100)), self.hatch_spacing_multiplier)

\* variant: the spot size is divided by the multiplier
calculate_hatch_spacing_Divide(self, spot_size_microns) ==
  RDiv(RDiv(spot_size_microns, I(1000)), self.hatch_spacing_multiplier)

calculate_hatch_spacing(self, spot_size_microns) ==
  RMul(RDiv(spot_size_microns, I(1000)), self.hatch_spacing_multiplier)

(* generate_hatch_lines *)

\* variant: the enabled flag is not consulted
HatchingOff_Ignored(self) == FALSE

\* "if not self.hatching_enabled"
HatchingOff(self) == ~self.hatching_enabled

\* variant: a spacing already on the object is kept, not recomputed
StoreSpacing_KeepFirst(self, actual_spacing) ==
  IF self.actual_hatch_spacing = NoAttr
    THEN [self EXCEPT !.actual_hatch_spacing = actual_spacing]
  ELSE self

\* "self._actual_hatch_spacing = actual_spacing"
StoreSpacing(self, actual_spacing) ==
  [self EXCEPT !.actual_hatch_spacing = actual_spacing]

\* variant: the second family repeats the primary angle
secondary_angle_Same(self) == self.hatch_angle

\* "secondary_angle = self.hatch_angle + 90.0"
secondary_angle(self) == AddQuarter(self.hatch_angle, 1)

\* the outcome of a call: the object after it and the returned list, or
\* raised = TRUE when the call raised
Outcome(self, raised_, lines) == [self |-> self, raised |-> raised_, lines |-> lines]

\* "lines.extend(secondary_lines)"
ExtendLines(self, primary, secondary) ==
  IF secondary.raised THEN Outcome(self, TRUE, <<>>)
  ELSE Outcome(self, FALSE, primary.lines \o secondary.lines)

\* "if self.hatch_pattern == 'crosshatch'"
AddSecondary(self, primary) ==
  IF primary.raised THEN Outcome(self, TRUE, <<>>)
  ELSE IF self.hatch_pattern = "crosshatch"
    THEN ExtendLines(self, primary,
                     generate_hatch_lines_at_angle(self, secondary_angle(self)))
  ELSE Outcome(self, FALSE, primary.lines)

\* the body after the spacing is stored on the object
GenerateLines(self) ==
  AddSecondary(self, generate_hatch_lines_at_angle(self, self.hatch_angle))

generate_hatch_lines(self, spot_size_microns) ==
  IF HatchingOff(self) THEN Outcome(self, FALSE, <<>>)
  ELSE GenerateLines(StoreSpacing(self, calculate_hatch_spacing(self, spot_size_microns)))

----------------------------------------------------------------------------
(* The program: one BuildStep object, constructed (Init), then modified    *)
(* and hatched any number of times                                         *)

VARIABLES
  step,    \* the BuildStep object (its fields and the attribute)
  pc,      \* "idle", or "returned" right after generate_hatch_lines returned
  spot,    \* spot_size_microns of the call that just returned
  ret,     \* the list that call returned
  raised,  \* TRUE when that call raised instead of returning
  stale,   \* TRUE when that call found, from an earlier call, a spacing
           \* on the object other than the one it then computed
  clip,    \* the locals of a running _clip_line_to_rectangle call
  scan,    \* the locals of a running _generate_circle_hatches call
  win      \* the main window: its list of build steps, its dialogs, its drawing

vars == <<step, pc, spot, ret, raised, stale, clip, scan, win>>

\* inputs
NoDims == [k \in {} |-> Zero]

ShapeInputs ==
  { <<"square", [size |-> I(2)]>>,
    <<"rectangle", [width |-> I(3), length |-> I(4)]>>,
    <<"rectangle", [width |-> I(4), length |-> I(3)]>>,
    <<"circle", [diameter |-> I(10)]>>,
    <<"ellipse", [width |-> I(3), length |-> I(4)]>>,
    <<"ellipse", [width |-> I(6), length |-> I(8)]>>,
    <<"", NoDims>> }

\* shapes with a governing dimension missing, zero or negative
DegenerateShapes ==
  { <<"square", NoDims>>,
    <<"rectangle", [width |-> I(3)]>>,
    <<"circle", [diameter |-> Zero]>>,
    <<"ellipse", [width |-> I(-3), length |-> I(4)]>> }

\* shapes whose squared dimensions are out of the range of the floats
HugeShapes ==
  { <<"square", [size |-> I(64)]>>,
    <<"ellipse", [width |-> I(64), length |-> I(4)]>> }

\* a shape_type that is none of the four kinds, with every dimension given
UnknownShapes ==
  { <<"hexagon", [size |-> I(2), width |-> I(3), length |-> I(4), diameter |-> I(10)]>> }

OffsetInputs == { <<Zero, Zero>>, <<I(10), I(5)>> }

Multipliers == { Rat(9, 10), I(1), I(2) }

\* values of the stored hatch_spacing field: the default, and one entered
HatchSpacings == { Rat(1, 10), I(1) }

\* multipliers that give no positive spacing
DegenerateMultipliers == { Zero, I(-1) }

Angles == { <<0, 0>>, <<1, 0>>, <<0, 1>>, <<3, 1>> }

Patterns == { "linear", "crosshatch" }

SpotSizes == { I(1000), I(2000) }

\* value of clip while no _clip_line_to_rectangle call is followed
NoClip == [kind |-> "idle"]

\* value of scan while no _generate_circle_hatches call is followed
NoScan == [kind |-> "idle"]

\* the main window after MainWindow.__init__: set_default_values cleared the
\* list, nothing is selected, no dialog is open, nothing is drawn; entered
\* lists, row by row, the BuildStep whose text the row shows
NoWindow == [items |-> <<>>, entered |-> <<>>, row |-> -1, dialog |-> "none", editing |-> <<>>, layer_text |-> [t |-> "num", v |-> <<1, 10>>], message |-> "", last |-> "", drawn |-> {}]

\* BuildStep(...): the dataclass constructor with its defaults
BuildStep(shape_type, dimensions, x_offset, y_offset, hatching_enabled, hatch_spacing_multiplier, hatch_angle, hatch_pattern) ==
  [shape_type |-> shape_type,
   dimensions |-> dimensions,
   repetitions |-> 1,
   x_offset |-> x_offset,
   y_offset |-> y_offset,
   starting_layer |-> 0,
   hatching_enabled |-> hatching_enabled,
   hatch_spacing |-> Rat(1, 10),
   hatch_spacing_multiplier |-> hatch_spacing_multiplier,
   hatch_angle |-> hatch_angle,
   hatch_pattern |-> hatch_pattern,
   actual_hatch_spacing |-> NoAttr]

BuildSteps ==
  { BuildStep(sh[1], sh[2], off[1], off[2], en, m, a, p) :
      sh \in ShapeInputs \cup DegenerateShapes \cup UnknownShapes \cup HugeShapes, off \in OffsetInputs, en \in BOOLEAN,
      m \in Multipliers \cup DegenerateMultipliers, a \in Angles, p \in Patterns }

\* the step of test_square_hatching
test_square_step ==
  BuildStep("square", [size |-> I(10)], Zero, Zero, TRUE, I(1), <<0, 0>>, "linear")

Init ==
  /\ step \in BuildSteps \cup {test_square_step}
  /\ pc = "idle"
  /\ spot = Zero
  /\ ret = <<>>
  /\ raised = FALSE
  /\ stale = FALSE
  /\ clip = NoClip
  /\ scan = NoScan
  /\ win = NoWindow

\* "shape.hatch_spacing_multiplier = multiplier"
SetMultiplier(m) ==
  /\ step' = [step EXCEPT !.hatch_spacing_multiplier = m]
  /\ step' # step
  /\ pc' = "idle"
  /\ spot' = Zero
  /\ ret' = <<>>
  /\ raised' = FALSE
  /\ stale' = FALSE
  /\ UNCHANGED <<clip, scan, win>>

\* "hatch_spacing=hatching_data['hatch_spacing']": the field is set on a
\* step that was not hatched yet
SetHatchSpacing(hs) ==
  /\ step.actual_hatch_spacing = NoAttr
  /\ step' = [step EXCEPT !.hatch_spacing = hs]
  /\ step' # step
  /\ pc' = "idle"
  /\ spot' = Zero
  /\ ret' = <<>>
  /\ raised' = FALSE
  /\ stale' = FALSE
  /\ UNCHANGED <<clip, scan, win>>

\* "lines = step.generate_hatch_lines(spot_size)"
Returns(spot_size, r) ==
  /\ step' = r.self
  /\ pc' = "returned"
  /\ spot' = spot_size
  /\ ret' = r.lines
  /\ raised' = r.raised
  /\ stale' = (step.actual_hatch_spacing # NoAttr
               /\ step.actual_hatch_spacing # r.self.actual_hatch_spacing)
  /\ UNCHANGED <<clip, scan, win>>

Call(spot_size) == Returns(spot_size, generate_hatch_lines(step, spot_size))

\* "spot_size = 100.0 ... lines = step.generate_hatch_lines(spot_size)"
test_square_hatching ==
  /\ step = test_square_step
  /\ Returns(I(100), generate_hatch_lines(step, I(100)))

Next ==
  \/ \E m \in Multipliers \cup DegenerateMultipliers : SetMultiplier(m)
  \/ \E hs \in HatchSpacings : SetHatchSpacing(hs)
  \/ \E sp \in SpotSizes : Call(sp)
  \/ test_square_hatching

Spec == Init /\ [][Next]_vars

----------------------------------------------------------------------------
(* One call of _clip_line_to_rectangle, followed pass by pass of its loop  *)

\* coordinates of the segment endpoints handed to the clipper: whole
\* numbers, and two neighbouring floats with a full significand
MaxCoord == 1

ClipCoords ==
  { I(c) : c \in -MaxCoord..MaxCoord }
    \cup { Rat(27, 32), Rat(-27, 32), Rat(53, 64), Rat(-53, 64) }

ClipPoints == { <<x, y>> : x \in ClipCoords, y \in ClipCoords }

\* (width, height) of the boxes
ClipBoxes == { <<I(1), I(1)>>, <<Rat(27, 32), Rat(27, 32)>> }

\* the locals at the first test of the loop: x_min .. y_max, x1 .. y2 and
\* the two outcodes; n counts the endpoint replacements made so far
ClipEntry(p1, p2, width, height, x_min, x_max, y_min, y_max) ==
  [kind |-> "run", p1 |-> p1, p2 |-> p2, width |-> width, height |-> height,
   x_min |-> x_min, x_max |-> x_max, y_min |-> y_min, y_max |-> y_max,
   x1 |-> p1[1], y1 |-> p1[2], x2 |-> p2[1], y2 |-> p2[2],
   outcode1 |-> compute_outcode(p1[1], p1[2], x_min, x_max, y_min, y_max),
   outcode2 |-> compute_outcode(p2[1], p2[2], x_min, x_max, y_min, y_max),
   n |-> 0]

ClipCall(p1, p2, width, height) ==
  ClipEntry(p1, p2, width, height,
            FDiv(RNeg(width), I(2)), FDiv(width, I(2)),
            FDiv(RNeg(height), I(2)), FDiv(height, I(2)))

\* "a1 + (a2 - a1) * (b - b1) / (b2 - b1)"
FloatIntersect(a1, b1, a2, b2, b) ==
  FAdd(a1, FDiv(FMul(FSub(a2, a1), FSub(b, b1)), FSub(b2, b1)))

\* "Find intersection point"
FloatClipPoint(x1, y1, x2, y2, oc, x_min, x_max, y_min, y_max) ==
  IF HasBit(oc, TOP) THEN <<FloatIntersect(x1, y1, x2, y2, y_max), y_max>>
  ELSE IF HasBit(oc, BOTTOM) THEN <<FloatIntersect(x1, y1, x2, y2, y_min), y_min>>
  ELSE IF HasBit(oc, RIGHT) THEN <<x_max, FloatIntersect(y1, x1, y2, x2, x_max)>>
  ELSE <<x_min, FloatIntersect(y1, x1, y2, x2, x_min)>>

\* "outcode = outcode1 if outcode1 != 0 else outcode2"
ChosenOutcode(c) == IF c.outcode1 # 0 THEN c.outcode1 ELSE c.outcode2

\* "Update point and outcode" with the intersection point pt
ClipReplace(c, outcode, pt) ==
  IF ~IsNum(pt[1]) \/ ~IsNum(pt[2]) THEN [c EXCEPT !.kind = "raise"]
  ELSE IF outcode = c.outcode1
    THEN [c EXCEPT !.x1 = pt[1], !.y1 = pt[2], !.n = c.n + 1,
                   !.outcode1 = compute_outcode(pt[1], pt[2], c.x_min, c.x_max, c.y_min, c.y_max)]
  ELSE [c EXCEPT !.x2 = pt[1], !.y2 = pt[2], !.n = c.n + 1,
                 !.outcode2 = compute_outcode(pt[1], pt[2], c.x_min, c.x_max, c.y_min, c.y_max)]

\* one pass of the loop body that replaces an endpoint
ClipPass(c, outcode) ==
  ClipReplace(c, outcode,
              FloatClipPoint(c.x1, c.y1, c.x2, c.y2, outcode, c.x_min, c.x_max, c.y_min, c.y_max))

ClipInit ==
  /\ step = BuildStep("", NoDims, Zero, Zero, FALSE, I(1), <<0, 0>>, "linear")
  /\ pc = "idle"
  /\ spot = Zero
  /\ ret = <<>>
  /\ raised = FALSE
  /\ stale = FALSE
  /\ clip = NoClip
  /\ scan = NoScan
  /\ win = NoWindow

\* "clipped = self._clip_line_to_rectangle(p1, p2, width, height)"
ClipEnter(p1, p2, width, height) ==
  /\ clip.kind = "idle"
  /\ clip' = ClipCall(p1, p2, width, height)
  /\ UNCHANGED <<step, pc, spot, ret, raised, stale, scan, win>>

\* a pass of the loop that reaches "Update point and outcode"
ClipIterate ==
  /\ clip.kind = "run"
  /\ ~(clip.outcode1 = 0 /\ clip.outcode2 = 0)
  /\ ~ShareBit(clip.outcode1, clip.outcode2)
  /\ clip.n < ClipFuel
  /\ clip' = ClipPass(clip, ChosenOutcode(clip))
  /\ UNCHANGED <<step, pc, spot, ret, raised, stale, scan, win>>

\* a pass of the loop that returns: the segment, or None
ClipReturn ==
  /\ clip.kind = "run"
  /\ (clip.outcode1 = 0 /\ clip.outcode2 = 0) \/ ShareBit(clip.outcode1, clip.outcode2)
  /\ clip' = [clip EXCEPT !.kind = IF clip.outcode1 = 0 /\ clip.outcode2 = 0
                                     THEN "seg" ELSE "none"]
  /\ UNCHANGED <<step, pc, spot, ret, raised, stale, scan, win>>

ClipNext ==
  \/ \E p1 \in ClipPoints, p2 \in ClipPoints, box \in ClipBoxes :
       ClipEnter(p1, p2, box[1], box[2])
  \/ ClipIterate
  \/ ClipReturn

ClipSpec == ClipInit /\ [][ClipNext]_vars

----------------------------------------------------------------------------
(* One call of _generate_circle_hatches, followed pass by pass of its loop *)

\* diameters and spacings handed to the generator
ScanDiameters == { Zero, Rat(5, 64), I(1), I(3), I(7), I(10) }

ScanSpacings == { Rat(9, 10), I(1), I(2), I(4) }

\* the locals when the loop is entered; offsets lists the offsets examined
\* so far and chords the offset and half length of the chords appended
ScanEntry(diameter, spacing, radius, num_lines) ==
  [kind |-> "loop", diameter |-> diameter, spacing |-> spacing, radius |-> radius,
   num_lines |-> num_lines, start_offset |-> FSub(RNeg(radius), spacing),
   i |-> 0, offsets |-> <<>>, chords |-> <<>>]

\* "if diameter <= 0 or spacing <= 0: return lines", else the loop is entered
ScanCall(diameter, spacing) ==
  IF RLe(diameter, Zero) \/ RLe(spacing, Zero)
    THEN [ScanEntry(diameter, spacing, Zero, 0) EXCEPT !.kind = "done"]
  ELSE ScanEntry(diameter, spacing, FDiv(diameter, I(2)), RInt(FDiv(diameter, spacing)) + 2)

\* "offset = start_offset + i * spacing"
ScanOffset(c) == FAdd(c.start_offset, FMul(I(c.i), c.spacing))

\* "chord_half_length = math.sqrt(radius**2 - offset**2)"
ScanChord(c, offset) == [offset |-> offset, half |-> RSqrt(FSub(FMul(c.radius, c.radius), FMul(offset, offset)))]

ScanInit ==
  /\ step = BuildStep("", NoDims, Zero, Zero, FALSE, I(1), <<0, 0>>, "linear")
  /\ pc = "idle"
  /\ spot = Zero
  /\ ret = <<>>
  /\ raised = FALSE
  /\ stale = FALSE
  /\ clip = NoClip
  /\ scan = NoScan
  /\ win = NoWindow

\* "return self._generate_circle_hatches(self.dimensions.get('diameter', 0), angle_deg)"
ScanEnter(diameter, spacing) ==
  /\ scan.kind = "idle"
  /\ scan' = ScanCall(diameter, spacing)
  /\ UNCHANGED <<step, pc, spot, ret, raised, stale, clip, win>>

\* "if abs(offset) >= radius: continue"
ScanSkip ==
  /\ scan.kind = "loop"
  /\ scan.i < scan.num_lines
  /\ RGe(RAbs(ScanOffset(scan)), scan.radius)
  /\ scan' = [scan EXCEPT !.i = scan.i + 1, !.offsets = Append(scan.offsets, ScanOffset(scan))]
  /\ UNCHANGED <<step, pc, spot, ret, raised, stale, clip, win>>

\* a pass that appends a chord
ScanEmit ==
  /\ scan.kind = "loop"
  /\ scan.i < scan.num_lines
  /\ RLt(RAbs(ScanOffset(scan)), scan.radius)
  /\ scan' = [scan EXCEPT !.i = scan.i + 1, !.offsets = Append(scan.offsets, ScanOffset(scan)),
                          !.chords = Append(scan.chords, ScanChord(scan, ScanOffset(scan)))]
  /\ UNCHANGED <<step, pc, spot, ret, raised, stale, clip, win>>

\* "return lines"
ScanReturn ==
  /\ scan.kind = "loop"
  /\ scan.i = scan.num_lines
  /\ scan' = [scan EXCEPT !.kind = "done"]
  /\ UNCHANGED <<step, pc, spot, ret, raised, stale, clip, win>>

ScanNext ==
  \/ \E diameter \in ScanDiameters, spacing \in ScanSpacings : ScanEnter(diameter, spacing)
  \/ ScanSkip
  \/ ScanEmit
  \/ ScanReturn

ScanSpec == ScanInit /\ [][ScanNext]_vars

----------------------------------------------------------------------------
(* The text of line edits and of list items *)

\* what a line edit can hold: the decimal text of a number, "nan", nothing,
\* or a text that is no number
NumText(v) == [t |-> "num", v |-> v]

NanText == [t |-> "nan", v |-> <<0, 0>>]

EmptyText == [t |-> "empty", v |-> <<0, 0>>]

JunkText == [t |-> "junk", v |-> <<0, 0>>]

\* float('nan')
NaN == <<0, 0>>

\* "a <= b" and "a < b" on floats: False when either is nan
FloatLe(a, b) == IsNum(a) /\ IsNum(b) /\ RLe(a, b)

FloatLt(a, b) == IsNum(a) /\ IsNum(b) /\ RLt(a, b)

\* float(text): ok is FALSE for ValueError
float_of(text) ==
  IF text.t = "num" THEN [ok |-> TRUE, v |-> text.v]
  ELSE IF text.t = "nan" THEN [ok |-> TRUE, v |-> NaN]
  ELSE [ok |-> FALSE, v |-> Zero]

\* int(text): ok is FALSE for ValueError; the value is an integer
int_of(text) ==
  IF text.t = "num" /\ text.v[2] = 1 THEN [ok |-> TRUE, v |-> text.v[1]]
  ELSE [ok |-> FALSE, v |-> 0]

\* f"{x:.1f}": x rounded to one decimal, ties to even
Format1(x) ==
  IF ~IsNum(x) THEN x
  ELSE IF x[1] >= 0 THEN Rat(RoundSignificand(10 * x[1], x[2]), 10)
  ELSE RNeg(Rat(RoundSignificand(10 * (-x[1]), x[2]), 10))

\* str.capitalize() and str.lower() on the shape names
Capitalize(name) ==
  IF name = "square" THEN "Square" ELSE IF name = "rectangle" THEN "Rectangle"
  ELSE IF name = "circle" THEN "Circle" ELSE IF name = "ellipse" THEN "Ellipse" ELSE name

Lower(name) ==
  IF name = "Square" THEN "square" ELSE IF name = "Rectangle" THEN "rectangle"
  ELSE IF name = "Circle" THEN "circle" ELSE IF name = "Ellipse" THEN "ellipse" ELSE name

\* one " | "-separated part of a list item text: what it is, its fixed
\* wording (form) and the two numbers printed in it
Part(part, form, a, b) == [part |-> part, form |-> form, a |-> a, b |-> b]

\* BuildStep.format_dimensions
format_dimensions(self) ==
  IF self.shape_type = "square"
    THEN Part("dims", "AxBmm", DimGet(self.dimensions, "size"), DimGet(self.dimensions, "size"))
  ELSE IF self.shape_type = "rectangle"
    THEN Part("dims", "AxBmm", DimGet(self.dimensions, "width"), DimGet(self.dimensions, "length"))
  ELSE IF self.shape_type = "circle"
    THEN Part("dims", "0Amm", DimGet(self.dimensions, "diameter"), Zero)
  ELSE IF self.shape_type = "ellipse"
    THEN Part("dims", "AxBmm ellipse", DimGet(self.dimensions, "width"), DimGet(self.dimensions, "length"))
  ELSE Part("dims", "", Zero, Zero)

\* "offset_str = f'@({self.x_offset:.1f},{self.y_offset:.1f})' if (...) else '@(0,0)'"
offset_str(self) ==
  IF self.x_offset # Zero \/ self.y_offset # Zero
    THEN Part("offset", "@(A,B)", Format1(self.x_offset), Format1(self.y_offset))
  ELSE Part("offset", "@(A,B)", Zero, Zero)

\* "layer_str" and the "Hatch: ..." part, when they are added
layer_parts(self) ==
  IF self.starting_layer > 0 THEN << Part("layer", "Layer A", I(self.starting_layer), Zero) >> ELSE << >>

hatch_parts(self) ==
  IF self.hatching_enabled
    THEN << Part("hatch", "Hatch: Ax@B", self.hatch_spacing_multiplier, self.hatch_angle) >>
  ELSE << >>

\* BuildStep.to_list_item_text: the parts of the text, in order
to_list_item_text(self) ==
  << Part("shape", Capitalize(self.shape_type), Zero, Zero),
     format_dimensions(self),
     Part("reps", "A Reps", I(self.repetitions), Zero),
     offset_str(self) >> \o layer_parts(self) \o hatch_parts(self)

\* "return cls()": the step with every default
DefaultStep == [BuildStep("", NoDims, Zero, Zero, FALSE, I(1), <<0, 0>>, "linear") EXCEPT !.repetitions = 1]

\* "Parse dimensions based on shape type": ok is FALSE for ValueError
parse_dimensions(shape_type, dims) ==
  IF shape_type \in {"square", "rectangle"} /\ dims.form = "AxBmm"
    THEN [ok |-> TRUE, dimensions |-> IF shape_type = "square" THEN [size |-> dims.a] ELSE [width |-> dims.a, length |-> dims.b]]
  ELSE IF shape_type = "circle" /\ dims.form = "0Amm"
    THEN [ok |-> TRUE, dimensions |-> [diameter |-> dims.a]]
  ELSE IF shape_type = "ellipse" /\ dims.form = "AxBmm ellipse"
    THEN [ok |-> TRUE, dimensions |-> [width |-> dims.a, length |-> dims.b]]
  ELSE [ok |-> shape_type \notin {"square", "rectangle", "circle", "ellipse"}, dimensions |-> NoDims]

\* "Parse starting layer if present"
parse_starting_layer(parts) ==
  IF Len(parts) >= 5 /\ parts[5].part = "layer" THEN parts[5].a[1] ELSE 0

\* the BuildStep built by "return cls(shape_type=..., ..., starting_layer=...)"
parsed_step(shape_type, dimensions, repetitions, x_offset, y_offset, starting_layer) ==
  [BuildStep(shape_type, dimensions, x_offset, y_offset, FALSE, I(1), <<0, 0>>, "linear") EXCEPT !.repetitions = repetitions, !.starting_layer = starting_layer]

\* BuildStep.from_list_item_text
from_list_item_text(text) ==
  IF Len(text) < 4 THEN DefaultStep
  ELSE IF ~parse_dimensions(Lower(text[1].form), text[2]).ok THEN DefaultStep
  ELSE parsed_step(Lower(text[1].form), parse_dimensions(Lower(text[1].form), text[2]).dimensions,
                   text[3].a[1], text[4].a, text[4].b, parse_starting_layer(text))

----------------------------------------------------------------------------
(* The wizard and the edit dialog *)

\* the dimension fields of a shape: the keys of parameter_widgets
ShapeFields(shape_type) ==
  IF shape_type = "square" THEN {"size"}
  ELSE IF shape_type = "circle" THEN {"diameter"}
  ELSE IF shape_type \in {"rectangle", "ellipse"} THEN {"width", "length"}
  ELSE {}

\* what the user left in the fields of the wizard or of the edit dialog:
\* value is the hatch spacing in the wizard, the multiplier in the dialog
Form(shape, first, repetitions, x_offset, y_offset, layer_checked, starting_layer, hatching, value, hatch_angle, hatch_pattern) ==
  [shape |-> shape,
   dims |-> [k \in ShapeFields(shape) |-> IF k = "length" THEN NumText(I(4)) ELSE first],
   repetitions |-> repetitions, x_offset |-> x_offset, y_offset |-> y_offset,
   layer_checked |-> layer_checked,
   starting_layer |-> IF layer_checked THEN starting_layer ELSE NumText(Zero),
   hatching |-> hatching, value |-> value, hatch_angle |-> hatch_angle, hatch_pattern |-> hatch_pattern]

\* a dimension field passes: "if not text: return False ... if value <= 0: return False"
DimensionPasses(text) == text.t # "empty" /\ float_of(text).ok /\ ~FloatLe(float_of(text).v, Zero)

\* the repetitions field passes: "value = int(text); if value < 1: return False"
RepetitionsPass(text) == int_of(text).ok /\ ~(int_of(text).v < 1)

\* ParametersPage.isComplete
ParametersPage_isComplete(form) ==
  /\ \A k \in DOMAIN form.dims : DimensionPasses(form.dims[k])
  /\ RepetitionsPass(form.repetitions)

\* PositionPage.isComplete
PositionPage_isComplete(form) ==
  /\ float_of(form.x_offset).ok
  /\ float_of(form.y_offset).ok
  /\ int_of(form.starting_layer).ok
  /\ ~(int_of(form.starting_layer).v < 0)

\* HatchingPage.isComplete
HatchingPage_isComplete(form) ==
  \/ ~form.hatching
  \/ /\ float_of(form.value).ok
     /\ ~FloatLe(float_of(form.value).v, Zero)
     /\ float_of(form.hatch_angle).ok

\* the Finish button of the wizard is enabled
WizardComplete(form) ==
  ParametersPage_isComplete(form) /\ PositionPage_isComplete(form) /\ HatchingPage_isComplete(form)

\* the dimensions read from the fields: "params[field_name] = float(widget.text())"
FieldDimensions(form) == [k \in DOMAIN form.dims |-> float_of(form.dims[k]).v]

\* get_position_data()["starting_layer"], and the same choice in on_save
FieldStartingLayer(form) == IF form.layer_checked THEN int_of(form.starting_layer).v ELSE 0

\* BuildStepWizard.get_build_step
get_build_step(form) ==
  [shape_type |-> form.shape,
   dimensions |-> FieldDimensions(form),
   repetitions |-> int_of(form.repetitions).v,
   x_offset |-> float_of(form.x_offset).v,
   y_offset |-> float_of(form.y_offset).v,
   starting_layer |-> FieldStartingLayer(form),
   hatching_enabled |-> form.hatching,
   hatch_spacing |-> IF form.hatching THEN float_of(form.value).v ELSE Rat(1, 10),
   hatch_spacing_multiplier |-> I(1),
   hatch_angle |-> IF form.hatching THEN float_of(form.hatch_angle).v ELSE <<0, 0>>,
   hatch_pattern |-> IF form.hatching THEN form.hatch_pattern ELSE "linear",
   actual_hatch_spacing |-> NoAttr]

\* EditBuildStepDialog.validate_input
validate_input(form) ==
  /\ RepetitionsPass(form.repetitions)
  /\ PositionPage_isComplete(form)
  /\ HatchingPage_isComplete(form)
  /\ \A k \in DOMAIN form.dims : DimensionPasses(form.dims[k])

\* the hatching fields after on_save: written only when the box is checked
SavedHatching(current, form) ==
  IF form.hatching
    THEN [current EXCEPT !.hatching_enabled = TRUE,
                         !.hatch_spacing_multiplier = float_of(form.value).v,
                         !.hatch_spacing = RMul(Rat(1, 10), float_of(form.value).v),
                         !.hatch_angle = float_of(form.hatch_angle).v,
                         !.hatch_pattern = form.hatch_pattern]
  ELSE [current EXCEPT !.hatching_enabled = FALSE]

\* EditBuildStepDialog.on_save after validate_input passed: current_build_step
SavedStep(current, form) ==
  [SavedHatching(current, form) EXCEPT !.shape_type = form.shape,
                                       !.dimensions = FieldDimensions(form),
                                       !.repetitions = int_of(form.repetitions).v,
                                       !.x_offset = float_of(form.x_offset).v,
                                       !.y_offset = float_of(form.y_offset).v,
                                       !.starting_layer = FieldStartingLayer(form)]

----------------------------------------------------------------------------
(* BuildVisualizer (src/visualization.py) *)

\* dims.get(key, default)
DimGetOr(dimensions, key, default) == IF key \in DOMAIN dimensions THEN dimensions[key] ELSE default

\* max(a, b): b when b > a, else a
PyMax(a, b) == IF FloatLt(a, b) THEN b ELSE a

\* the points with one coordinate from each of three sets
Corners(xs, ys, zs) == { <<x, y, z>> : x \in xs, y \in ys, z \in zs }

\* offset - half and offset + half
BothSides(offset, half) == { RSub(offset, half), RAdd(offset, half) }

\* the vertices of the faces made by create_box_vertices
create_box_vertices(width, length, height, offset_x, offset_y, offset_z) ==
  Corners(BothSides(offset_x, RDiv(width, I(2))), BothSides(offset_y, RDiv(length, I(2))), BothSides(offset_z, RDiv(height, I(2))))

\* the segments i of a circle of so many segments whose angle 2*pi*i/segments
\* is a whole number of quarter turns, with that number
QuarterSegments(segments) == { i \in 0..(segments - 1) : (4 * i) % segments = 0 }

QuarterOf(i, segments) == (4 * i) \div segments

\* "px = x + radius * math.cos(angle); py = y + radius * math.sin(angle)" at
\* the quarter turns, where math.cos and math.sin are 0, 1 or -1
circle_points(radius, segments, x, y) ==
  { << RAdd(x, RMul(radius, Cos(<<QuarterOf(i, segments), 0>>))), RAdd(y, RMul(radius, Sin(<<QuarterOf(i, segments), 0>>))) >> : i \in QuarterSegments(segments) }

\* bottom_circle and top_circle: the points at z - h and at z + h
circles_at(points, zs) == { <<p[1], p[2], z>> : p \in points, z \in zs }

\* the vertices made by create_cylinder_faces at the quarter turns
create_cylinder_faces(radius, height, segments, offset_x, offset_y, offset_z) ==
  circles_at(circle_points(radius, segments, offset_x, offset_y), BothSides(offset_z, RDiv(height, I(2))))

\* "scaled_vertex = [vertex[0] * scale_x, vertex[1] * scale_y, vertex[2]]"
scaled_vertex(vertex, scale_x, scale_y) ==
  << RMul(vertex[1], scale_x), RMul(vertex[2], scale_y), vertex[3] >>

\* scaled_faces: every vertex of the faces scaled
scaled_faces(faces, scale_x, scale_y) == { scaled_vertex(vertex, scale_x, scale_y) : vertex \in faces }

\* the ellipse branch of update_visualization after "radius = max(width,
\* length) / 2": a cylinder of that radius, every vertex scaled
ellipse_of_radius(width, length, radius, layer_height, x_offset, y_offset, z_offset) ==
  scaled_faces(create_cylinder_faces(radius, layer_height, 24, x_offset, y_offset, z_offset),
               RDiv(width, RMul(I(2), radius)), RDiv(length, RMul(I(2), radius)))

ellipse_faces(width, length, layer_height, x_offset, y_offset, z_offset) ==
  ellipse_of_radius(width, length, RDiv(PyMax(width, length), I(2)), layer_height, x_offset, y_offset, z_offset)

\* the vertices drawn for one repetition of a build step, by shape
step_faces(build_step, layer_height, z_offset) ==
  IF build_step.shape_type = "square"
    THEN create_box_vertices(DimGetOr(build_step.dimensions, "size", I(10)), DimGetOr(build_step.dimensions, "size", I(10)),
                             layer_height, build_step.x_offset, build_step.y_offset, z_offset)
  ELSE IF build_step.shape_type = "rectangle"
    THEN create_box_vertices(DimGetOr(build_step.dimensions, "width", I(10)), DimGetOr(build_step.dimensions, "length", I(15)),
                             layer_height, build_step.x_offset, build_step.y_offset, z_offset)
  ELSE IF build_step.shape_type = "circle"
    THEN create_cylinder_faces(RDiv(DimGetOr(build_step.dimensions, "diameter", I(10)), I(2)), layer_height, 16,
                               build_step.x_offset, build_step.y_offset, z_offset)
  ELSE IF build_step.shape_type = "ellipse"
    THEN ellipse_faces(DimGetOr(build_step.dimensions, "width", I(10)), DimGetOr(build_step.dimensions, "length", I(15)),
                       layer_height, build_step.x_offset, build_step.y_offset, z_offset)
  ELSE {}

\* current_z when repetition rep is drawn: starting_layer * layer_height,
\* then layer_height more after every repetition
current_z(build_step, rep, layer_height) ==
  RAdd(RMul(I(build_step.starting_layer), layer_height), RMul(I(rep), layer_height))

\* update_visualization: the polygon collections added to the plot, each
\* with the step and the repetition it was made for
update_visualization(build_steps, layer_height) ==
  UNION { { [step |-> step_index, rep |-> rep,
             vertices |-> step_faces(build_steps[step_index], layer_height,
                                     RAdd(current_z(build_steps[step_index], rep, layer_height), RDiv(layer_height, I(2))))] :
            rep \in 0..(build_steps[step_index].repetitions - 1) } : step_index \in 1..Len(build_steps) }

----------------------------------------------------------------------------
(* The main window (src/main_window.py): the build sequence list, the      *)
(* wizard, the edit dialog and the visualizer                              *)

\* the most items the list is given
MaxItems == 2

\* MainWindow.get_current_build_steps
get_current_build_steps(items) == [i \in 1..Len(items) |-> from_list_item_text(items[i])]

\* MainWindow.get_layer_height
get_layer_height(text) == IF text.t # "empty" /\ float_of(text).ok THEN float_of(text).v ELSE Rat(1, 10)

\* MainWindow.update_visualizer: what the visualizer draws for the list
update_visualizer(items, layer_text) ==
  update_visualization(get_current_build_steps(items), get_layer_height(layer_text))

\* QListWidget.takeItem(row) and insertItem(row, item); rows count from 0
takeItem(items, row) == [i \in 1..(Len(items) - 1) |-> IF i <= row THEN items[i] ELSE items[i + 1]]

\* variant: the item replaces the one at the row
insertItem_Replace(items, row, item) == [i \in 1..Len(items) |-> IF i = row + 1 THEN item ELSE items[i]]

insertItem(items, row, item) ==
  [i \in 1..(Len(items) + 1) |-> IF i <= row THEN items[i] ELSE IF i = row + 1 THEN item ELSE items[i - 1]]

\* the fields the user may leave in the wizard and in the edit dialog
FormInputs ==
  { Form("square", NumText(I(3)), NumText(I(1)), NumText(Zero), NumText(Zero), FALSE, NumText(Zero), FALSE, NumText(I(1)), NumText(Zero), "linear"),
    Form("rectangle", NumText(I(3)), NumText(I(2)), NumText(Rat(5, 4)), NumText(Zero), FALSE, NumText(Zero), TRUE, NumText(I(2)), NumText(<<1, 0>>), "crosshatch"),
    Form("circle", NumText(I(10)), NumText(I(1)), NumText(I(10)), NumText(I(5)), TRUE, NumText(I(2)), FALSE, NumText(I(1)), NumText(Zero), "linear"),
    Form("ellipse", NumText(I(3)), NumText(I(2)), NumText(I(10)), NumText(I(5)), TRUE, NumText(I(1)), FALSE, NumText(I(1)), NumText(Zero), "linear"),
    Form("circle", NanText, NumText(I(1)), NumText(Zero), NumText(Zero), FALSE, NumText(Zero), FALSE, NumText(I(1)), NumText(Zero), "linear"),
    Form("square", NumText(I(-1)), NumText(I(1)), NumText(Zero), NumText(Zero), FALSE, NumText(Zero), FALSE, NumText(I(1)), NumText(Zero), "linear"),
    Form("square", EmptyText, NumText(I(1)), NumText(Zero), NumText(Zero), FALSE, NumText(Zero), FALSE, NumText(I(1)), NumText(Zero), "linear"),
    Form("rectangle", NumText(I(3)), NumText(Zero), NumText(Zero), NumText(Zero), FALSE, NumText(Zero), FALSE, NumText(I(1)), NumText(Zero), "linear"),
    Form("ellipse", NumText(I(3)), NumText(I(1)), JunkText, NumText(Zero), FALSE, NumText(Zero), FALSE, NumText(I(1)), NumText(Zero), "linear"),
    Form("circle", NumText(I(10)), NumText(I(1)), NumText(Zero), NumText(Zero), TRUE, NumText(I(-1)), FALSE, NumText(I(1)), NumText(Zero), "linear"),
    Form("square", NumText(I(3)), NumText(I(1)), NumText(Zero), NumText(Zero), FALSE, NumText(Zero), TRUE, NumText(Zero), NumText(Zero), "linear") }

\* the texts typed into the layer height field
LayerHeightTexts == { NumText(Rat(1, 10)), NumText(Rat(1, 4)), EmptyText, JunkText }

WindowInit ==
  /\ win = NoWindow
  /\ step = BuildStep("square", [size |-> I(2)], Zero, Zero, FALSE, I(1), <<0, 0>>, "linear")
  /\ pc = "idle" /\ spot = Zero /\ ret = <<>> /\ raised = FALSE /\ stale = FALSE
  /\ clip = NoClip /\ scan = NoScan

\* Add Step: the wizard runs; Finish is enabled only on complete pages
on_add_step_clicked(form, accepted) ==
  /\ win.dialog = "none"
  /\ Len(win.items) < MaxItems
  /\ accepted => WizardComplete(form)
  /\ win' = IF accepted
              THEN [win EXCEPT !.items = Append(win.items, to_list_item_text(get_build_step(form))),
                               !.entered = Append(win.entered, get_build_step(form)),
                               !.message = "", !.last = "on_add_step_clicked",
                               !.drawn = update_visualizer(Append(win.items, to_list_item_text(get_build_step(form))), win.layer_text)]
            ELSE [win EXCEPT !.message = "", !.last = "on_add_step_clicked"]
  /\ UNCHANGED <<step, pc, spot, ret, raised, stale, clip, scan>>

\* Edit Step: the dialog opens on the step parsed from the current item
on_edit_step_clicked ==
  /\ win.dialog = "none"
  /\ win' = IF win.row < 0
              THEN [win EXCEPT !.message = "No Selection", !.last = "on_edit_step_clicked"]
            ELSE [win EXCEPT !.dialog = "edit",
                             !.editing = << from_list_item_text(win.items[win.row + 1]) >>,
                             !.message = "", !.last = "on_edit_step_clicked"]
  /\ UNCHANGED <<step, pc, spot, ret, raised, stale, clip, scan>>

\* Save in the edit dialog, and what on_edit_step_clicked does on Accepted
on_save(form) ==
  /\ win.dialog = "edit"
  /\ win' = IF ~validate_input(form)
              THEN [win EXCEPT !.message = "Invalid Input", !.last = "on_save"]
            ELSE [win EXCEPT !.items[win.row + 1] = to_list_item_text(SavedStep(win.editing[1], form)),
                             !.entered[win.row + 1] = SavedStep(win.editing[1], form),
                             !.dialog = "none",
                             !.editing = << >>,
                             !.message = "", !.last = "on_save",
                             !.drawn = update_visualizer([win.items EXCEPT ![win.row + 1] = to_list_item_text(SavedStep(win.editing[1], form))], win.layer_text)]
  /\ UNCHANGED <<step, pc, spot, ret, raised, stale, clip, scan>>

\* Cancel in the edit dialog
on_cancel ==
  /\ win.dialog = "edit"
  /\ win' = [win EXCEPT !.dialog = "none", !.editing = << >>, !.message = "", !.last = "on_cancel"]
  /\ UNCHANGED <<step, pc, spot, ret, raised, stale, clip, scan>>

\* Delete Step: after the confirmation the current item is taken out; the
\* list widget then makes a neighbouring row current
on_delete_step_clicked(reply, new_row) ==
  /\ win.dialog = "none"
  /\ win' = IF win.row < 0
              THEN [win EXCEPT !.message = "No Selection", !.last = "on_delete_step_clicked"]
            ELSE IF reply = "Yes"
              THEN [win EXCEPT !.items = takeItem(win.items, win.row),
                               !.entered = takeItem(win.entered, win.row),
                               !.row = IF Len(win.items) = 1 THEN -1 ELSE IF new_row < Len(win.items) - 1 THEN new_row ELSE Len(win.items) - 2,
                               !.message = "", !.last = "on_delete_step_clicked",
                               !.drawn = update_visualizer(takeItem(win.items, win.row), win.layer_text)]
            ELSE [win EXCEPT !.message = "", !.last = "on_delete_step_clicked"]
  /\ UNCHANGED <<step, pc, spot, ret, raised, stale, clip, scan>>

\* Move Up
on_move_up_clicked ==
  /\ win.dialog = "none"
  /\ win' = IF win.row <= 0
              THEN [win EXCEPT !.message = "Cannot Move", !.last = "on_move_up_clicked"]
            ELSE [win EXCEPT !.items = insertItem(takeItem(win.items, win.row), win.row - 1, win.items[win.row + 1]),
                             !.entered = insertItem(takeItem(win.entered, win.row), win.row - 1, win.entered[win.row + 1]),
                             !.row = win.row - 1,
                             !.message = "", !.last = "on_move_up_clicked",
                             !.drawn = update_visualizer(insertItem(takeItem(win.items, win.row), win.row - 1, win.items[win.row + 1]), win.layer_text)]
  /\ UNCHANGED <<step, pc, spot, ret, raised, stale, clip, scan>>

\* Move Down
on_move_down_clicked ==
  /\ win.dialog = "none"
  /\ win' = IF win.row < 0 \/ win.row >= Len(win.items) - 1
              THEN [win EXCEPT !.message = "Cannot Move", !.last = "on_move_down_clicked"]
            ELSE [win EXCEPT !.items = insertItem(takeItem(win.items, win.row), win.row + 1, win.items[win.row + 1]),
                             !.entered = insertItem(takeItem(win.entered, win.row), win.row + 1, win.entered[win.row + 1]),
                             !.row = win.row + 1,
                             !.message = "", !.last = "on_move_down_clicked",
                             !.drawn = update_visualizer(insertItem(takeItem(win.items, win.row), win.row + 1, win.items[win.row + 1]), win.layer_text)]
  /\ UNCHANGED <<step, pc, spot, ret, raised, stale, clip, scan>>

\* a click on a row of the list makes it the current row
on_build_sequence_item_clicked(row) ==
  /\ win.dialog = "none"
  /\ row \in 0..(Len(win.items) - 1)
  /\ win' = [win EXCEPT !.row = row, !.message = "", !.last = "on_build_sequence_item_clicked"]
  /\ UNCHANGED <<step, pc, spot, ret, raised, stale, clip, scan>>

\* le_layerheight.textChanged: the visualizer is redrawn
on_layer_height_text_changed(text) ==
  /\ win.dialog = "none"
  /\ win' = [win EXCEPT !.layer_text = text, !.message = "", !.last = "on_layer_height_text_changed", !.drawn = update_visualizer(win.items, text)]
  /\ UNCHANGED <<step, pc, spot, ret, raised, stale, clip, scan>>

WindowNext ==
  \/ \E form \in FormInputs, accepted \in BOOLEAN : on_add_step_clicked(form, accepted)
  \/ on_edit_step_clicked
  \/ \E form \in FormInputs : on_save(form)
  \/ on_cancel
  \/ \E reply \in {"Yes", "No"}, new_row \in 0..(MaxItems - 1) : on_delete_step_clicked(reply, new_row)
  \/ on_move_up_clicked
  \/ on_move_down_clicked
  \/ \E row \in 0..(MaxItems - 1) : on_build_sequence_item_clicked(row)
  \/ \E text \in LayerHeightTexts : on_layer_height_text_changed(text)

WindowSpec == WindowInit /\ [][WindowNext]_vars

----------------------------------------------------------------------------
(* Vocabulary of the properties *)

\* a call has just returned a list
Returned == pc = "returned" /\ ~raised

\* a freshly constructed BuildStep with the field values of self
Fresh(self) == [self EXCEPT !.actual_hatch_spacing = NoAttr]

\* what generate_hatch_lines(spot_size) returns on a fresh copy of self
LinesOf(self, spot_size) == generate_hatch_lines(Fresh(self), spot_size).lines

\* the endpoints of all returned segments
Endpoints(lines) == { lines[i][k] : i \in 1..Len(lines), k \in 1..2 }

----------------------------------------------------------------------------
\* C1: with hatching_enabled = false generate_hatch_lines returns an empty
\* list, whatever the shape, dimensions, offsets, multiplier, angle, pattern
\* and spot size are.
C1_DisabledReturnsEmpty ==
  (pc = "returned" /\ ~step.hatching_enabled) => (~raised /\ ret = <<>>)

C1_Witness ==
  /\ Returned
  /\ ~step.hatching_enabled
  /\ step.shape_type = "circle"
  /\ step.hatch_pattern = "crosshatch"
  /\ step.x_offset # Zero

\* every segment of lines runs along the direction of angle a
AlongAngle(lines, a) ==
  \A i \in 1..Len(lines) :
    LET dx == RSub(lines[i][2][1], lines[i][1][1])
        dy == RSub(lines[i][2][2], lines[i][1][2])
    IN  /\ RSub(RMul(dx, Sin(a)), RMul(dy, Cos(a))) = Zero
        /\ RGe(RAdd(RMul(dx, Cos(a)), RMul(dy, Sin(a))), Zero)

\* C2: with hatching enabled the result is the line family at hatch_angle,
\* followed, only for the crosshatch pattern, by the family at hatch_angle + 90
\* degrees; its length is the sum of the two family lengths; for linear it is
\* the primary family alone.
C2_CrosshatchComposition ==
  (Returned /\ step.hatching_enabled) =>
    LET primary == generate_hatch_lines_at_angle(step, step.hatch_angle).lines
        secondary ==
          generate_hatch_lines_at_angle(step, AddQuarter(step.hatch_angle, 1)).lines
        n == Len(primary)
    IN  IF step.hatch_pattern = "crosshatch"
          THEN /\ ret = primary \o secondary
               /\ Len(ret) = n + Len(secondary)
               /\ AlongAngle(SubSeq(ret, 1, n), step.hatch_angle)
               /\ AlongAngle(SubSeq(ret, n + 1, Len(ret)), AddQuarter(step.hatch_angle, 1))
        ELSE /\ ret = primary
             /\ AlongAngle(ret, step.hatch_angle)

C2_Witness ==
  /\ Returned
  /\ step.hatching_enabled
  /\ step.hatch_pattern = "crosshatch"
  /\ step.shape_type = "rectangle"
  /\ step.hatch_angle = <<0, 1>>
  /\ Len(generate_hatch_lines_at_angle(step, step.hatch_angle).lines) > 0
  /\ Len(ret) > Len(generate_hatch_lines_at_angle(step, step.hatch_angle).lines)

\* C3: generate_hatch_lines is side-effect-free: after a call the object has
\* the same fields and attributes, with the same values, as before it.
C3_SideEffectFree == [][pc' = "returned" => step' = step]_vars

\* C4: no state persists between calls: whatever calls and changes of the
\* multiplier went before, a call returns what the same call returns on a
\* freshly constructed BuildStep with the same field values.
C4_NoStatePersists ==
  Returned => ret = LinesOf(step, spot)

C4_Witness ==
  /\ Returned
  /\ stale
  /\ step.hatching_enabled
  /\ Len(ret) > 0

\* C5: the spacing used for line generation is exactly
\* hatch_spacing_multiplier * spot_size_microns / 1000 mm, with no other
\* scaling (multiplier 2.0 and 100 microns give 0.200 mm), and for a fixed
\* multiplier it is proportional to the spot size.
C5_SpacingFormula ==
  (pc = "returned" /\ step.hatching_enabled) =>
    /\ SpacingOf(step) = RDiv(RMul(step.hatch_spacing_multiplier, spot), I(1000))
    /\ calculate_hatch_spacing(step, spot) = SpacingOf(step)
    /\ calculate_hatch_spacing([step EXCEPT !.hatch_spacing_multiplier = I(2)], I(100))
         = Rat(200, 1000)
    /\ \A sp \in SpotSizes :
         RMul(calculate_hatch_spacing(step, sp), spot) = RMul(SpacingOf(step), sp)

C5_Witness ==
  /\ pc = "returned"
  /\ step.hatching_enabled
  /\ step.hatch_spacing_multiplier = I(2)
  /\ spot = I(2000)
  /\ SpacingOf(step) = I(4)

\* the step with another multiplier
WithMultiplier(self, m) == [self EXCEPT !.hatch_spacing_multiplier = m]

\* the number of candidate lines a family of the shape examines at spacing s
NumCandidates(self, s) ==
  IF self.shape_type = "square"
    THEN rectangle_num_lines(Diagonal(DimGet(self.dimensions, "size"),
                                      DimGet(self.dimensions, "size")), s)
  ELSE IF self.shape_type \in {"rectangle", "ellipse"}
    THEN rectangle_num_lines(Diagonal(DimGet(self.dimensions, "width"),
                                      DimGet(self.dimensions, "length")), s)
  ELSE IF self.shape_type = "circle"
    THEN circle_num_lines(DimGet(self.dimensions, "diameter"), s)
  ELSE 0

Shift(p, dx, dy) == <<RAdd(p[1], dx), RAdd(p[2], dy)>>

\* C7: with offsets (dx, dy) the call returns as many segments, in the same
\* order, as on the otherwise identical step with offsets (0, 0), each
\* endpoint being the zero-offset endpoint plus (dx, dy).
C7_OffsetTranslation ==
  (Returned /\ step.hatching_enabled) =>
    LET origin == LinesOf([step EXCEPT !.x_offset = Zero, !.y_offset = Zero], spot)
    IN  /\ Len(ret) = Len(origin)
        /\ \A i \in 1..Len(ret) : \A k \in 1..2 :
             ret[i][k] = Shift(origin[i][k], step.x_offset, step.y_offset)

C7_Witness ==
  /\ Returned
  /\ step.hatching_enabled
  /\ step.x_offset = I(10)
  /\ step.y_offset = I(5)
  /\ step.shape_type = "ellipse"
  /\ step.hatch_angle = <<0, 1>>
  /\ Len(ret) > 1

\* width and height of the box of a square or rectangle
BoxWidth(self) ==
  IF self.shape_type = "square" THEN DimGet(self.dimensions, "size")
  ELSE DimGet(self.dimensions, "width")

BoxHeight(self) ==
  IF self.shape_type = "square" THEN DimGet(self.dimensions, "size")
  ELSE DimGet(self.dimensions, "length")

\* C8: for a square or rectangle of width w and height h, at any angle and
\* spacing, every endpoint (x, y) of every returned segment has
\* x_offset - w/2 <= x <= x_offset + w/2 and y_offset - h/2 <= y <= y_offset + h/2.
C8_RectangleContainment ==
  (Returned /\ step.hatching_enabled /\ step.shape_type \in {"square", "rectangle"}) =>
    \A p \in Endpoints(ret) :
      /\ RLe(RSub(step.x_offset, RDiv(BoxWidth(step), I(2))), p[1])
      /\ RLe(p[1], RAdd(step.x_offset, RDiv(BoxWidth(step), I(2))))
      /\ RLe(RSub(step.y_offset, RDiv(BoxHeight(step), I(2))), p[2])
      /\ RLe(p[2], RAdd(step.y_offset, RDiv(BoxHeight(step), I(2))))

C8_Witness ==
  /\ Returned
  /\ step.hatching_enabled
  /\ step.shape_type = "rectangle"
  /\ step.hatch_angle = <<0, 1>>
  /\ step.x_offset # Zero
  /\ \E p \in Endpoints(ret) :
       /\ p[2] = RAdd(step.y_offset, RDiv(BoxHeight(step), I(2)))
       /\ RLt(p[1], RAdd(step.x_offset, RDiv(BoxWidth(step), I(2))))

\* squared distance of the points p and c
Dist2(p, c) == RAdd(RSq(RSub(p[1], c[1])), RSq(RSub(p[2], c[2])))

Centre(self) == <<self.x_offset, self.y_offset>>

\* midpoint and squared half length of a segment
Mid(seg) == <<RDiv(RAdd(seg[1][1], seg[2][1]), I(2)), RDiv(RAdd(seg[1][2], seg[2][2]), I(2))>>

HalfLen2(seg) == RDiv(Dist2(seg[1], seg[2]), I(4))

Radius(self) == RDiv(DimGet(self.dimensions, "diameter"), I(2))

\* math.sqrt returns the exact root of q
ExactRoot(q) == RSq(RSqrt(q)) = q

\* chords whose centre points are equally far from the circle centre
\* (perpendicular offsets o and -o) have equal half lengths
MirrorChordsEqual(self, lines) ==
  \A i, j \in 1..Len(lines) :
    Dist2(Mid(lines[i]), Centre(self)) = Dist2(Mid(lines[j]), Centre(self))
      => HalfLen2(lines[i]) = HalfLen2(lines[j])

EllipseValue(self, p) ==
  RAdd(RSq(RDiv(RSub(p[1], self.x_offset), RDiv(DimGet(self.dimensions, "width"), I(2)))),
       RSq(RDiv(RSub(p[2], self.y_offset), RDiv(DimGet(self.dimensions, "length"), I(2)))))

\* the larger semi-axis
MaxSemiAxis(self) ==
  IF RGe(DimGet(self.dimensions, "width"), DimGet(self.dimensions, "length"))
    THEN RDiv(DimGet(self.dimensions, "width"), I(2))
  ELSE RDiv(DimGet(self.dimensions, "length"), I(2))

\* the discriminant of the scan line at angle a through the point p
DiscriminantThrough(self, a, p) ==
  LET o == RSub(RMul(RSub(p[2], self.y_offset), Cos(a)),
                RMul(RSub(p[1], self.x_offset), Sin(a)))
  IN  ellipse_discriminant(
        ellipse_quadratic(RDiv(DimGet(self.dimensions, "width"), I(2)),
                          RDiv(DimGet(self.dimensions, "length"), I(2)),
                          Cos(a), Sin(a), RMul(RNeg(o), Sin(a)), RMul(o, Cos(a))))

ClearedBits(c, d) ==
  { b \in {LEFT, RIGHT, BOTTOM, TOP} :
      /\ HasBit(ChosenOutcode(c), b)
      /\ ~HasBit(IF ChosenOutcode(c) = c.outcode1 THEN d.outcode1 ELSE d.outcode2, b) }

\* C11: the Cohen-Sutherland loop terminates for every input segment and
\* every box of positive width and height, after at most 4 endpoint
\* replacements (no call makes a fifth: after four the test at the head of
\* the loop returns), and every replacement clears at least one outcode bit
\* of the chosen endpoint.
C11_ClipTerminates ==
  /\ [](clip.kind # "idle" => clip.kind \in {"run", "seg", "none"} /\ clip.n <= 4)
  /\ []((clip.kind = "run" /\ clip.n = 4) =>
          \/ clip.outcode1 = 0 /\ clip.outcode2 = 0
          \/ ShareBit(clip.outcode1, clip.outcode2))
  /\ [][ClipIterate => ClearedBits(clip, clip') # {}]_vars

C11_Witness ==
  /\ clip.kind = "seg"
  /\ clip.n = 4
  /\ <<clip.x1, clip.y1>> # <<clip.x2, clip.y2>>

\* the keys of the dimension mapping that govern the shape
GoverningDimensions(self) ==
  IF self.shape_type = "square" THEN {"size"}
  ELSE IF self.shape_type \in {"rectangle", "ellipse"} THEN {"width", "length"}
  ELSE IF self.shape_type = "circle" THEN {"diameter"}
  ELSE {}

\* a governing dimension is missing, zero or negative
DegenerateDimensions(self) ==
  \E k \in GoverningDimensions(self) :
    k \notin DOMAIN self.dimensions \/ RLe(self.dimensions[k], Zero)

\* C12: with hatching enabled, if the computed spacing is <= 0 (multiplier
\* or spot size zero or negative) or a governing dimension of the shape is
\* <= 0 or missing, generate_hatch_lines returns an empty list and does not
\* raise.
C12_DegenerateReturnsEmpty ==
  /\ (pc = "returned" /\ step.hatching_enabled
        /\ (RLe(SpacingOf(step), Zero) \/ DegenerateDimensions(step)))
       => (~raised /\ ret = <<>>)
  /\ (pc = "returned" /\ step.hatching_enabled) =>
       \A sp \in {Zero, I(-1000)} :
         RLe(calculate_hatch_spacing(step, sp), Zero) =>
           /\ ~generate_hatch_lines(step, sp).raised
           /\ generate_hatch_lines(step, sp).lines = <<>>

C12_Witness ==
  /\ Returned
  /\ step.hatching_enabled
  /\ step.shape_type = "rectangle"
  /\ "length" \notin DOMAIN step.dimensions
  /\ step.hatch_pattern = "crosshatch"
  /\ RGt(SpacingOf(step), Zero)
  /\ ret = <<>>

\* the four shape kinds
ShapeKinds == {"square", "rectangle", "circle", "ellipse"}

\* C13: a BuildStep whose shape_type is none of square, rectangle, circle,
\* ellipse (the default empty string included) yields an empty list from
\* generate_hatch_lines, for the linear and the crosshatch pattern alike.
C13_UnknownShapeReturnsEmpty ==
  (pc = "returned" /\ step.shape_type \notin ShapeKinds) => (~raised /\ ret = <<>>)

C13_Witness ==
  /\ Returned
  /\ step.hatching_enabled
  /\ step.shape_type = "hexagon"
  /\ step.hatch_pattern = "crosshatch"
  /\ RGt(SpacingOf(step), Zero)
  /\ RGt(DimGet(step.dimensions, "size"), Zero)
  /\ ret = <<>>

\* C14: generate_hatch_lines never raises for any of the four shape kinds,
\* whatever the dimensions, the spacing and the angle are: no clip iteration
\* divides by zero, the leading coefficient of the ellipse quadratic is never
\* zero, and no other step of the call raises.
C14_NeverRaises ==
  (pc = "returned" /\ step.shape_type \in ShapeKinds) => ~raised

\* C15: at angle 0 with the linear pattern every segment returned for a
\* square or rectangle of width w is horizontal (both endpoints have the
\* same y) and spans the full width: it runs from x = x_offset - w/2 to
\* x = x_offset + w/2.
C15_HorizontalFullWidth ==
  (Returned /\ step.hatching_enabled /\ step.shape_type \in {"square", "rectangle"}
     /\ step.hatch_angle = <<0, 0>> /\ step.hatch_pattern = "linear") =>
    \A i \in 1..Len(ret) :
      /\ ret[i][1][2] = ret[i][2][2]
      /\ ret[i][1][1] = RSub(step.x_offset, RDiv(BoxWidth(step), I(2)))
      /\ ret[i][2][1] = RAdd(step.x_offset, RDiv(BoxWidth(step), I(2)))

C15_Witness ==
  /\ Returned
  /\ step.hatching_enabled
  /\ step.shape_type = "rectangle"
  /\ step.hatch_angle = <<0, 0>>
  /\ step.hatch_pattern = "linear"
  /\ step.x_offset = I(10)
  /\ Len(ret) >= 3
  /\ ret[1][1][1] = I(8)
  /\ ret[1][2][1] = I(12)

\* test_square_hatching has just returned
SquareScenario ==
  /\ Returned
  /\ Fresh(step) = test_square_step
  /\ spot = I(100)

\* C16 as stated: for the square of size 10 mm with spot size 100 microns,
\* multiplier 1.0 (spacing 0.1 mm), angle 0 and linear pattern the generator
\* examines floor(10/0.1) + 2 = 102 candidate lines before clipping.
C16_SquareExamines102 ==
  SquareScenario =>
    /\ SpacingOf(step) = Rat(1, 10)
    /\ NumCandidates(step, SpacingOf(step)) = 102

\* C16 amended: in that scenario the generator examines
\* floor(sqrt(10^2 + 10^2)/0.1) + 2 = 143 candidate lines before clipping
\* (the quotient is taken of the bounding diagonal, not of the side), of
\* which 100 are returned.
C16_SquareExamines143 ==
  SquareScenario =>
    /\ SpacingOf(step) = Rat(1, 10)
    /\ NumCandidates(step, SpacingOf(step)) = 143
    /\ Len(ret) = 100

C16_Witness ==
  /\ SquareScenario
  /\ Len(ret) = 100
  /\ ret[1][1][1] = I(-5)

AsRectangle(self) == [self EXCEPT !.shape_type = "rectangle", !.dimensions = [width |-> DimGet(self.dimensions, "size"), length |-> DimGet(self.dimensions, "size")]]

C18_SquareIsRectangle ==
  (pc = "returned" /\ step.shape_type = "square") =>
    /\ generate_hatch_lines(Fresh(AsRectangle(step)), spot).raised = raised
    /\ generate_hatch_lines(Fresh(AsRectangle(step)), spot).lines = ret

C18_Witness ==
  /\ Returned
  /\ step.shape_type = "square"
  /\ step.dimensions = [size |-> I(2)]
  /\ step.hatch_pattern = "crosshatch"
  /\ step.hatch_angle # <<0, 0>>
  /\ Len(ret) > 2
  /\ ret = LinesOf(AsRectangle(step), spot)

\* the parameters t in [0, 1] at which a1 + t * (a2 - a1) lies in [lo, hi]:
\* the lower and the upper end of their interval (empty when lower > upper)
AxisLo(a1, a2, lo, hi) == IF a1 = a2 THEN (IF RLe(lo, a1) /\ RLe(a1, hi) THEN Zero ELSE I(2)) ELSE IF RLt(a1, a2) THEN RDiv(RSub(lo, a1), RSub(a2, a1)) ELSE RDiv(RSub(hi, a1), RSub(a2, a1))
AxisHi(a1, a2, lo, hi) == IF a1 = a2 THEN I(1) ELSE IF RLt(a1, a2) THEN RDiv(RSub(hi, a1), RSub(a2, a1)) ELSE RDiv(RSub(lo, a1), RSub(a2, a1))
RMax(p, q) == IF RLt(p, q) THEN q ELSE p
RMin(p, q) == IF RLt(p, q) THEN p ELSE q

\* the first and the last parameter of the segment p1 -> p2 inside the
\* closed box [-width/2, width/2] x [-height/2, height/2]
TEnter(p1, p2, width, height) == RMax(Zero, RMax(AxisLo(p1[1], p2[1], RDiv(RNeg(width), I(2)), RDiv(width, I(2))), AxisLo(p1[2], p2[2], RDiv(RNeg(height), I(2)), RDiv(height, I(2)))))
TLeave(p1, p2, width, height) == RMin(I(1), RMin(AxisHi(p1[1], p2[1], RDiv(RNeg(width), I(2)), RDiv(width, I(2))), AxisHi(p1[2], p2[2], RDiv(RNeg(height), I(2)), RDiv(height, I(2)))))

\* some point of the segment lies in the closed box
MeetsBox(p1, p2, width, height) == RLe(TEnter(p1, p2, width, height), TLeave(p1, p2, width, height))

\* the point of the segment at parameter t
PointAt(p1, p2, t) == <<RAdd(p1[1], RMul(t, RSub(p2[1], p1[1]))), RAdd(p1[2], RMul(t, RSub(p2[2], p1[2])))>>

\* the part of the segment inside the closed box, from the p1 side to the p2 side
InsidePart(p1, p2, width, height) == <<PointAt(p1, p2, TEnter(p1, p2, width, height)), PointAt(p1, p2, TLeave(p1, p2, width, height))>>

\* the call can neither return nor make another pass within ClipFuel passes
ClipStuck(c) == c.kind = "run" /\ c.n >= ClipFuel /\ ~(c.outcode1 = 0 /\ c.outcode2 = 0) /\ ~ShareBit(c.outcode1, c.outcode2)

\* C19: the clipper returns None exactly when no point of the input segment
\* lies in the closed box [-w/2, w/2] x [-h/2, h/2]; otherwise it returns
\* the part of the segment inside the closed box (both returned endpoints on
\* the original segment and inside the box, in p1-to-p2 order), and it
\* returns the input unchanged when both endpoints have outcode 0.  The call
\* therefore returns: it neither raises nor stays in the loop.
C19_ClipperCorrect ==
  /\ ~ClipStuck(clip)
  /\ clip.kind # "raise"
  /\ clip.kind = "none" => ~MeetsBox(clip.p1, clip.p2, clip.width, clip.height)
  /\ clip.kind = "seg" =>
       /\ MeetsBox(clip.p1, clip.p2, clip.width, clip.height)
       /\ <<<<clip.x1, clip.y1>>, <<clip.x2, clip.y2>>>> = InsidePart(clip.p1, clip.p2, clip.width, clip.height)
  /\ (clip.kind = "seg" /\ clip.n = 0) => <<clip.x1, clip.y1>> = clip.p1 /\ <<clip.x2, clip.y2>> = clip.p2

\* a call on a square or a rectangle that reached the candidate loop
RectangleSwept == Returned /\ step.hatching_enabled /\ step.shape_type \in {"square", "rectangle"} /\ ret # <<>>

\* D of the step: the diagonal of its bounding box
DiagonalOf(self) == IF self.shape_type = "square" THEN Diagonal(square_size(self), square_size(self)) ELSE Diagonal(DimGet(self.dimensions, "width"), DimGet(self.dimensions, "length"))

\* perpendicular offset of candidate i (from 0) of the step
CandidateOffset(self, i) == LineOffset(rectangle_start_offset(DiagonalOf(self)), i, SpacingOf(self))

\* the candidates are floor(D/spacing) + 2, the first at -D/2, each one
\* spacing after the one before
CandidateCountAndSteps(self, n) ==
  /\ RLe(RMul(I(n - 2), SpacingOf(self)), DiagonalOf(self))
  /\ RLt(DiagonalOf(self), RMul(I(n - 1), SpacingOf(self)))
  /\ CandidateOffset(self, 0) = RNeg(RDiv(DiagonalOf(self), I(2)))
  /\ \A i \in 1..(n - 1) : RSub(CandidateOffset(self, i), CandidateOffset(self, i - 1)) = SpacingOf(self)

\* C20 (as stated): floor(D/spacing) + 2 candidates, offsets from -D/2 in
\* steps of spacing, every candidate offset within [-D/2, +D/2].
C20_OffsetsWithinHalfDiagonal ==
  RectangleSwept =>
    /\ CandidateCountAndSteps(step, NumCandidates(step, SpacingOf(step)))
    /\ \A i \in 0..(NumCandidates(step, SpacingOf(step)) - 1) :
         /\ RGe(CandidateOffset(step, i), RNeg(RDiv(DiagonalOf(step), I(2))))
         /\ RLe(CandidateOffset(step, i), RDiv(DiagonalOf(step), I(2)))

\* C20 (amended): floor(D/spacing) + 2 candidates, offsets from -D/2 in
\* steps of spacing; every candidate but the last lies within [-D/2, +D/2],
\* and the last lies beyond +D/2, by at most spacing.
C20_LastOffsetBeyondHalfDiagonal ==
  RectangleSwept =>
    /\ CandidateCountAndSteps(step, NumCandidates(step, SpacingOf(step)))
    /\ \A i \in 0..(NumCandidates(step, SpacingOf(step)) - 2) :
         /\ RGe(CandidateOffset(step, i), RNeg(RDiv(DiagonalOf(step), I(2))))
         /\ RLe(CandidateOffset(step, i), RDiv(DiagonalOf(step), I(2)))
    /\ RGt(CandidateOffset(step, NumCandidates(step, SpacingOf(step)) - 1), RDiv(DiagonalOf(step), I(2)))
    /\ RLe(CandidateOffset(step, NumCandidates(step, SpacingOf(step)) - 1), RAdd(RDiv(DiagonalOf(step), I(2)), SpacingOf(step)))

C20_Witness ==
  /\ RectangleSwept
  /\ step.shape_type = "rectangle"
  /\ step.dimensions = [width |-> I(3), length |-> I(4)]
  /\ SpacingOf(step) = I(1)
  /\ NumCandidates(step, SpacingOf(step)) = 7
  /\ CandidateOffset(step, 6) = Rat(7, 2)
  /\ Len(ret) >= 3

\* the exact offset of candidate i (from 0): -radius - spacing + i * spacing
ExactOffset(c, i) == RAdd(RSub(RNeg(RDiv(c.diameter, I(2))), c.spacing), RMul(I(i), c.spacing))

\* C21: the circle generator examines floor(diameter/spacing) + 2 candidate
\* offsets, all in [-radius - spacing, +radius] and stepped by spacing, and
\* emits a chord for exactly the candidates with |o| < radius (a tangent
\* line is skipped); so a circle whose spacing is at least its diameter
\* receives no hatch line.
C21_CircleFamily ==
  (scan.kind = "done" /\ RGt(scan.diameter, Zero)) =>
    /\ Len(scan.offsets) = scan.num_lines
    /\ RLe(RMul(I(scan.num_lines - 2), scan.spacing), scan.diameter)
    /\ RLt(scan.diameter, RMul(I(scan.num_lines - 1), scan.spacing))
    /\ \A i \in 1..Len(scan.offsets) :
         /\ scan.offsets[i] = ExactOffset(scan, i - 1)
         /\ RGe(scan.offsets[i], RSub(RNeg(RDiv(scan.diameter, I(2))), scan.spacing))
         /\ RLe(scan.offsets[i], RDiv(scan.diameter, I(2)))
    /\ Len(scan.chords) = Cardinality({ i \in 1..scan.num_lines : RLt(RAbs(ExactOffset(scan, i - 1)), RDiv(scan.diameter, I(2))) })
    /\ \A k \in 1..Len(scan.chords) : RLt(RAbs(scan.chords[k].offset), RDiv(scan.diameter, I(2)))
    /\ RGe(scan.spacing, scan.diameter) => scan.chords = <<>>

OnCorner(self, p) ==
  /\ RAbs(RSub(p[1], self.x_offset)) = RDiv(BoxWidth(self), I(2))
  /\ RAbs(RSub(p[2], self.y_offset)) = RDiv(BoxHeight(self), I(2))

FollowingAngle(self) == IF self.hatch_pattern = "crosshatch" THEN AddQuarter(self.hatch_angle, 1) ELSE self.hatch_angle

\* C23: within one line family generated at angle theta every segment
\* (p1, p2) is oriented along the scan direction, p2 - p1 = L * (cos theta,
\* sin theta) with L >= 0, for rectangles, circles and ellipses: the result
\* is the family along hatch_angle followed (for crosshatch) by the family
\* along hatch_angle + 90, and no segment runs against its family's direction.
C23_UniformScanDirection ==
  (Returned /\ step.hatching_enabled) =>
    \E n \in 0..Len(ret) :
      /\ step.hatch_pattern = "linear" => n = Len(ret)
      /\ AlongAngle(SubSeq(ret, 1, n), step.hatch_angle)
      /\ AlongAngle(SubSeq(ret, n + 1, Len(ret)), FollowingAngle(step))

C23_Witness ==
  /\ Returned
  /\ step.hatching_enabled
  /\ step.shape_type = "ellipse"
  /\ step.hatch_pattern = "crosshatch"
  /\ step.hatch_angle = <<0, 1>>
  /\ \E i \in 1..Len(ret), j \in 1..Len(ret) :
       /\ i < j
       /\ ret[i][1] # ret[i][2]
       /\ ret[j][1] # ret[j][2]
       /\ AlongAngle(<<ret[i]>>, step.hatch_angle)
       /\ AlongAngle(<<ret[j]>>, AddQuarter(step.hatch_angle, 1))

\* perpendicular offset from the shape centre of the point p, for a family
\* at angle a: the component of p - centre along (-sin a, cos a)
PerpOffset(self, p, a) == RSub(RMul(RSub(p[2], self.y_offset), Cos(a)), RMul(RSub(p[1], self.x_offset), Sin(a)))

\* consecutive segments of lines are one spacing apart, in increasing offset
EvenlyStepped(self, lines, a) ==
  \A i \in 1..(Len(lines) - 1) :
    /\ RLt(PerpOffset(self, lines[i][1], a), PerpOffset(self, lines[i + 1][1], a))
    /\ RSub(PerpOffset(self, lines[i + 1][1], a), PerpOffset(self, lines[i][1], a)) = SpacingOf(self)
    /\ RSub(PerpOffset(self, lines[i + 1][2], a), PerpOffset(self, lines[i][2], a)) = SpacingOf(self)

UnclippedEnd(self, a, i, side) ==
  <<RAdd(RMul(RNeg(CandidateOffset(self, i)), Sin(a)), RMul(RMul(I(side), DiagonalOf(self)), Cos(a))),
    RAdd(RMul(CandidateOffset(self, i), Cos(a)), RMul(RMul(I(side), DiagonalOf(self)), Sin(a)))>>

\* p, relative to the centre, is outside the box of the step
OutsideBox(self, p) == RGt(RAbs(p[1]), RDiv(BoxWidth(self), I(2))) \/ RGt(RAbs(p[2]), RDiv(BoxHeight(self), I(2)))

\* p is on the boundary of the rectangle of the step
OnBoundary(self, p) ==
  /\ RLe(RAbs(RSub(p[1], self.x_offset)), RDiv(BoxWidth(self), I(2)))
  /\ RLe(RAbs(RSub(p[2], self.y_offset)), RDiv(BoxHeight(self), I(2)))
  /\ \/ RAbs(RSub(p[1], self.x_offset)) = RDiv(BoxWidth(self), I(2))
     \/ RAbs(RSub(p[2], self.y_offset)) = RDiv(BoxHeight(self), I(2))

\* C25: rectangle hatch lines reach the edges: both unclipped endpoints of
\* every candidate line are at distance >= D from the centre and outside the
\* rectangle, so each endpoint of every returned rectangle or square segment
\* lies on the rectangle boundary: |x - x_offset| = w/2 or |y - y_offset| = h/2.
C25_LinesReachEdges ==
  RectangleSwept =>
    /\ \A a \in {step.hatch_angle, FollowingAngle(step)} :
         \A i \in 0..(NumCandidates(step, SpacingOf(step)) - 1) : \A side \in {-1, 1} :
           /\ RGe(Dist2(UnclippedEnd(step, a, i, side), <<Zero, Zero>>), RSq(DiagonalOf(step)))
           /\ OutsideBox(step, UnclippedEnd(step, a, i, side))
    /\ \A p \in Endpoints(ret) : OnBoundary(step, p)

C25_Witness ==
  /\ RectangleSwept
  /\ step.shape_type = "rectangle"
  /\ step.hatch_angle = <<0, 1>>
  /\ step.hatch_pattern = "crosshatch"
  /\ step.x_offset = I(10)
  /\ \E p \in Endpoints(ret) : RAbs(RSub(p[1], step.x_offset)) = RDiv(BoxWidth(step), I(2)) /\ RLt(RAbs(RSub(p[2], step.y_offset)), RDiv(BoxHeight(step), I(2)))
  /\ \E p \in Endpoints(ret) : RAbs(RSub(p[2], step.y_offset)) = RDiv(BoxHeight(step), I(2)) /\ RLt(RAbs(RSub(p[1], step.x_offset)), RDiv(BoxWidth(step), I(2)))

\* the hatch configuration of two steps is the same
SameHatchConfiguration(a, b) ==
  /\ a.hatching_enabled = b.hatching_enabled
  /\ a.hatch_spacing_multiplier = b.hatch_spacing_multiplier
  /\ a.hatch_angle = b.hatch_angle
  /\ a.hatch_pattern = b.hatch_pattern

\* C26: whatever was added, edited, moved and deleted, every step returned by
\* get_current_build_steps, and the step handed to the edit dialog, has the
\* hatching_enabled, hatch_spacing_multiplier, hatch_angle and hatch_pattern
\* that were set when the step was last added or saved
C26_StoreKeepsHatchConfiguration ==
  /\ \A i \in 1..Len(win.items) : SameHatchConfiguration(get_current_build_steps(win.items)[i], win.entered[i])
  /\ win.dialog = "edit" => SameHatchConfiguration(win.editing[1], win.entered[win.row + 1])

\* a valid BuildStep: one of the four shapes, positive dimensions,
\* repetitions >= 1, starting_layer >= 0
ValidStep(s) ==
  /\ s.shape_type \in {"square", "rectangle", "circle", "ellipse"}
  /\ DOMAIN s.dimensions = ShapeFields(s.shape_type)
  /\ \A k \in DOMAIN s.dimensions : FloatLt(Zero, s.dimensions[k])
  /\ s.repetitions >= 1
  /\ s.starting_layer >= 0

\* the fields the list text is to carry are the same in two steps
SameShapeAndPlace(a, b) ==
  /\ a.shape_type = b.shape_type
  /\ a.dimensions = b.dimensions
  /\ a.repetitions = b.repetitions
  /\ a.x_offset = b.x_offset
  /\ a.y_offset = b.y_offset
  /\ a.starting_layer = b.starting_layer

\* C27: for every valid BuildStep s, with any offsets, hatching enabled or
\* not, from_list_item_text(to_list_item_text(s)) has the shape_type,
\* dimensions, repetitions, x_offset, y_offset and starting_layer of s
C27_ListTextRoundTrip ==
  \A i \in 1..Len(win.entered) :
    ValidStep(win.entered[i]) => SameShapeAndPlace(from_list_item_text(to_list_item_text(win.entered[i])), win.entered[i])

\* the same items, each as many times, in two lists
SameItems(a, b) ==
  /\ Len(a) = Len(b)
  /\ \A x \in {a[i] : i \in 1..Len(a)} : Cardinality({i \in 1..Len(a) : a[i] = x}) = Cardinality({i \in 1..Len(b) : b[i] = x})

\* list b is list a with rows r and r + 1 (counted from 0) exchanged
RowsSwapped(a, b, r) ==
  /\ Len(a) = Len(b)
  /\ b[r + 1] = a[r + 2]
  /\ b[r + 2] = a[r + 1]
  /\ \A i \in 1..Len(a) : i \notin {r + 1, r + 2} => b[i] = a[i]

\* what a click on Move Up is to do
MoveUpEffect ==
  /\ SameItems(win.items, win'.items)
  /\ IF win.row > 0
       THEN RowsSwapped(win.items, win'.items, win.row - 1) /\ win'.row = win.row - 1
     ELSE win'.items = win.items /\ win'.row = win.row

\* what a click on Move Down is to do
MoveDownEffect ==
  /\ SameItems(win.items, win'.items)
  /\ IF win.row >= 0 /\ win.row < Len(win.items) - 1
       THEN RowsSwapped(win.items, win'.items, win.row) /\ win'.row = win.row + 1
     ELSE win'.items = win.items /\ win'.row = win.row

\* C28: a Move Up or a Move Down leaves a permutation of the list (same
\* length, same items); Move Up on row r > 0 swaps rows r-1 and r and the
\* selection follows the moved item, Move Down on row r < count-1 swaps rows r
\* and r+1, and a move at the boundary (first row up, last row down, no
\* selection) leaves list order and selection unchanged
C28_ReorderingPreservesList ==
  [][ /\ on_move_up_clicked => MoveUpEffect
      /\ on_move_down_clicked => MoveDownEffect ]_vars

C28_Witness ==
  /\ win.last = "on_move_up_clicked"
  /\ win.message = ""
  /\ win.row = 0
  /\ Len(win.items) = 2
  /\ win.items[1] # win.items[2]
  /\ win.entered[1].shape_type = "ellipse"
  /\ win.entered[2].shape_type = "rectangle"

\* the data-model invariant of a BuildStep: every dimension > 0,
\* repetitions >= 1, starting_layer >= 0, and the multiplier > 0 when
\* hatching is enabled
DataModelInvariant(s) ==
  /\ \A k \in DOMAIN s.dimensions : FloatLt(Zero, s.dimensions[k])
  /\ s.repetitions >= 1
  /\ s.starting_layer >= 0
  /\ s.hatching_enabled => FloatLt(Zero, s.hatch_spacing_multiplier)

\* a Save with an invalid field leaves the dialog open and the list unchanged
InvalidSaveKeeps ==
  \A form \in FormInputs :
    (on_save(form) /\ ~validate_input(form)) => (win'.dialog = "edit" /\ win'.items = win.items /\ win'.editing = win.editing)

\* C29: every BuildStep that entered the list through an accepted wizard or a
\* saved edit dialog satisfies the data-model invariant, and a Save in the edit
\* dialog with an invalid field leaves the dialog open and the item unchanged
C29_EnteredStepsValid ==
  /\ [](\A i \in 1..Len(win.entered) : DataModelInvariant(win.entered[i]))
  /\ [][InvalidSaveKeeps]_vars

\* the values of one coordinate of a set of vertices, the least and the
\* greatest of a set of numbers, and the point half way between them
Coordinates(vertices, axis) == { v[axis] : v \in vertices }

Lowest(values) == CHOOSE v \in values : \A w \in values : RLe(v, w)

Highest(values) == CHOOSE v \in values : \A w \in values : RLe(w, v)

Middle(values) == RDiv(RAdd(Lowest(values), Highest(values)), I(2))

\* the layer drawn for repetition rep of a step is centred at the offsets of
\* the step and fills its own band of z
LayerInPlace(layer, build_step, layer_height) ==
  /\ layer.vertices # {}
  /\ Middle(Coordinates(layer.vertices, 1)) = build_step.x_offset
  /\ Middle(Coordinates(layer.vertices, 2)) = build_step.y_offset
  /\ Lowest(Coordinates(layer.vertices, 3)) = RMul(I(build_step.starting_layer + layer.rep), layer_height)
  /\ Highest(Coordinates(layer.vertices, 3)) = RMul(I(build_step.starting_layer + layer.rep + 1), layer_height)

\* C30: update_visualization draws one layer for every repetition k of every
\* step; the layer is centred at the step's (x_offset, y_offset), for all four
\* shapes, ellipses with width # length included, and lies between
\* z = (starting_layer + k) * layer_height and (starting_layer + k + 1) *
\* layer_height, whatever the other steps of the list are
C30_LayersInPlace ==
  \A i \in 1..Len(win.items) :
    ValidStep(get_current_build_steps(win.items)[i]) =>
      \A k \in 0..(get_current_build_steps(win.items)[i].repetitions - 1) :
        \E layer \in win.drawn :
          /\ layer.step = i
          /\ layer.rep = k
          /\ LayerInPlace(layer, get_current_build_steps(win.items)[i], get_layer_height(win.layer_text))

============================================================================
